---- MODULE Spec2Model ----
(***************************************************************************)
(* Cheat sheet collection with a hierarchical keyword taxonomy:            *)
(* CheatSheetManager (src/cheatsheet.py, src/Next_lvl/                     *)
(* cheatsheet-manager-updates.py), SearchEngine (src/Next_lvl/             *)
(* advanced-search.py) and MigrationTool (src/Next_lvl/                    *)
(* migration-strategy.py).                                                 *)
(*                                                                         *)
(* A Python str is a sequence of one-character strings, so that lower(),   *)
(* the `in` substring test, re.sub/split and difflib's ratio are computed  *)
(* character by character.  A keyword path is a sequence of such strings.  *)
(* The nested dict keyword_taxonomy is the set of its node chains: the     *)
(* chain p is in the set iff walking the dict along p finds every key.     *)
(* created_at/updated_at are left out: no operation reads them.            *)
(***************************************************************************)
EXTENDS Integers, Sequences, FiniteSets, TLC

VARIABLES
    DEFAULT_STORAGE_STRUCTURE, \* the module-level dict of src/cheatsheet.py:18
    files,                     \* storage path -> what the file holds
    loaded,                    \* the dict json.load returned to the live manager
    self,                      \* the live manager: storage_path, and which dict
                               \* object self.cheatsheets refers to
    managers,                  \* how many managers this process has built
    category_manager,          \* the CategoryManager of src/src/category.py:
                               \* its root categories and the Category objects
    ret                        \* the last call: its arguments and what it returned

vars == <<DEFAULT_STORAGE_STRUCTURE, files, loaded, self, managers, category_manager, ret>>

----------------------------------------------------------------------------
(* Bounds of the model. *)

\* the largest number of stored cheat sheets
MaxDocs == 2

\* the longest keyword path handed to _ensure_keyword_path_exists and to
\* get_keyword_children in SpecTaxonomy
MaxDepth == 2

\* the longest keyword path handed to _is_prefix in SpecPrefix
MaxPathLen == 3

\* the largest number of managers built in one process
MaxManagers == 2

\* the largest similarity grade semantic_search is handed for a document
MaxScore == 2

\* the longest text handed to _tokenize in SpecTokenize
MaxTextLen == 3

\* the largest number of Category objects in the category tree
MaxCategories == 2

\* the largest number of cheat sheets filed in the category tree
MaxSheets == 2

\* the largest integer score handed to the final score of the legacy search
MaxLegacyScore == 100

----------------------------------------------------------------------------
(* The strings the inputs are drawn from. *)

S ==
  [ empty |-> <<>>,
    git_basics |-> <<"g", "i", "t", "-", "b", "a", "s", "i", "c", "s">>,
    git_advanced |-> <<"g", "i", "t", "-", "a", "d", "v", "a", "n", "c", "e", "d">>,
    bash_tips |-> <<"b", "a", "s", "h", "-", "t", "i", "p", "s">>,
    notes |-> <<"n", "o", "t", "e", "s">>,
    misc |-> <<"m", "i", "s", "c">>,
    bad_name |-> <<"g", "i", "t", " ", "t", "i", "p", "s">>,
    Computers |-> <<"C", "o", "m", "p", "u", "t", "e", "r", "s">>,
    VCS |-> <<"V", "C", "S">>,
    Git |-> <<"G", "i", "t">>,
    Shell |-> <<"S", "h", "e", "l", "l">>,
    Uncategorized |-> <<"U", "n", "c", "a", "t", "e", "g", "o", "r", "i", "z", "e", "d">>,
    Programming |-> <<"P", "r", "o", "g", "r", "a", "m", "m", "i", "n", "g">>,
    git |-> <<"g", "i", "t">>,
    bash |-> <<"b", "a", "s", "h">>,
    hooks |-> <<"h", "o", "o", "k", "s">>,
    c_git_init |-> <<"g", "i", "t", " ", "i", "n", "i", "t">>,
    c_rebase |-> <<"G", "i", "t", ":", " ", "r", "e", "b", "a", "s", "e", "!">>,
    c_ls |-> <<"l", "s", " ", "-", "l", "a">>,
    c_hooks |-> <<"g", "i", "t", " ", "h", "o", "o", "k", "s">>,
    c_python |-> <<"p", "y", "t", "h", "o", "n", " ", "t", "i", "p", "s">>,
    d_basics |-> <<"T", "h", "e", " ", "b", "a", "s", "i", "c", "s">>,
    q_gti |-> <<"g", "t", "i">>,
    q_GIT |-> <<"G", "I", "T">>,
    q_git_basics |-> <<"g", "i", "t", " ", "b", "a", "s", "i", "c", "s">>,
    q_git_git |-> <<"g", "i", "t", " ", "g", "i", "t">>,
    q_git_none |-> <<"g", "i", "t", " ", "n", "o", "n", "e", "x", "i", "s", "t", "e", "n", "t", "t", "e", "r", "m">>,
    q_punct |-> <<"-", "!">>,
    q_space |-> <<" ">>,
    q_i |-> <<"i">>,
    q_bas |-> <<"b", "a", "s">>,
    python |-> <<"p", "y", "t", "h", "o", "n">>,
    javascript |-> <<"j", "a", "v", "a", "s", "c", "r", "i", "p", "t">>,
    java |-> <<"j", "a", "v", "a">>,
    cpp |-> <<"c", "+", "+">>,
    csharp |-> <<"c", "#">>,
    ruby |-> <<"r", "u", "b", "y">>,
    php |-> <<"p", "h", "p">>,
    go |-> <<"g", "o">>,
    rust |-> <<"r", "u", "s", "t">>,
    docker |-> <<"d", "o", "c", "k", "e", "r">>,
    linux |-> <<"l", "i", "n", "u", "x">>,
    windows |-> <<"w", "i", "n", "d", "o", "w", "s">>,
    sql |-> <<"s", "q", "l">>,
    Version_Control |-> <<"V", "e", "r", "s", "i", "o", "n", " ", "C", "o", "n", "t", "r", "o", "l">>,
    Containerization |-> <<"C", "o", "n", "t", "a", "i", "n", "e", "r", "i", "z", "a", "t", "i", "o", "n">>,
    Docker |-> <<"D", "o", "c", "k", "e", "r">>,
    Operating_Systems |-> <<"O", "p", "e", "r", "a", "t", "i", "n", "g", " ", "S", "y", "s", "t", "e", "m", "s">>,
    Linux |-> <<"L", "i", "n", "u", "x">>,
    Windows |-> <<"W", "i", "n", "d", "o", "w", "s">>,
    Bash |-> <<"B", "a", "s", "h">>,
    Databases |-> <<"D", "a", "t", "a", "b", "a", "s", "e", "s">>,
    SQL |-> <<"S", "Q", "L">> ]

Min(a, b) == IF a <= b THEN a ELSE b

\* str.lower() on the ASCII letters
UpperToLower ==
    ("A" :> "a") @@
    ("B" :> "b") @@
    ("C" :> "c") @@
    ("D" :> "d") @@
    ("E" :> "e") @@
    ("F" :> "f") @@
    ("G" :> "g") @@
    ("H" :> "h") @@
    ("I" :> "i") @@
    ("J" :> "j") @@
    ("K" :> "k") @@
    ("L" :> "l") @@
    ("M" :> "m") @@
    ("N" :> "n") @@
    ("O" :> "o") @@
    ("P" :> "p") @@
    ("Q" :> "q") @@
    ("R" :> "r") @@
    ("S" :> "s") @@
    ("T" :> "t") @@
    ("U" :> "u") @@
    ("V" :> "v") @@
    ("W" :> "w") @@
    ("X" :> "x") @@
    ("Y" :> "y") @@
    ("Z" :> "z")

LowerLetters == {"a", "b", "c", "d", "e", "f", "g", "h", "i", "j", "k", "l", "m", "n", "o", "p", "q", "r", "s", "t", "u", "v", "w", "x", "y", "z"}

Digits == {"0", "1", "2", "3", "4", "5", "6", "7", "8", "9"}

\* \w of the re module
WordChars == LowerLetters \cup DOMAIN UpperToLower \cup Digits \cup {"_"}

\* \s of the re module (the inputs hold no other white space than the blank)
Whitespace == {" "}

lower(text) ==
    [i \in 1..Len(text) |->
        IF text[i] \in DOMAIN UpperToLower THEN UpperToLower[text[i]] ELSE text[i]]

\* str.capitalize(): first character upper-cased, the rest lower-cased
capitalize(text) ==
    [i \in 1..Len(text) |->
        IF i = 1 /\ text[i] \in LowerLetters
        THEN CHOOSE u \in DOMAIN UpperToLower : UpperToLower[u] = text[i]
        ELSE lower(text)[i]]

\* `sub in text` of Python str
Contains(sub, text) ==
    \E i \in 0..(Len(text) - Len(sub)) : SubSeq(text, i + 1, i + Len(sub)) = sub

\* re.sub(r'[^\w\s]', ' ', text)
re_sub_punctuation(text) ==
    [i \in 1..Len(text) |->
        IF text[i] \in WordChars \cup Whitespace THEN text[i] ELSE " "]

\* str.split(): cut at runs of white space, no empty pieces
RECURSIVE split(_, _, _)
split(text, word, acc) ==
    IF text = <<>>
    THEN IF word = <<>> THEN acc ELSE Append(acc, word)
    ELSE IF Head(text) \in Whitespace
         THEN split(Tail(text), <<>>, IF word = <<>> THEN acc ELSE Append(acc, word))
         ELSE split(Tail(text), Append(word, Head(text)), acc)

\* mutant: the text is not lower-cased
tokenize_no_lower(text) ==
    IF text = <<>> THEN <<>>
    ELSE split(re_sub_punctuation(text), <<>>, <<>>)

\* SearchEngine._tokenize
tokenize(text) ==
    IF text = <<>> THEN <<>>
    ELSE split(re_sub_punctuation(lower(text)), <<>>, <<>>)

\* " ".join(tokens)
RECURSIVE join(_)
join(tokens) ==
    IF tokens = <<>> THEN <<>>
    ELSE IF Len(tokens) = 1 THEN tokens[1]
    ELSE tokens[1] \o <<" ">> \o join(Tail(tokens))

Range(seq) == {seq[i] : i \in 1..Len(seq)}

----------------------------------------------------------------------------
(* difflib.SequenceMatcher(None, a, b).ratio(), as fuzzy_search uses it.   *)
(* A ratio is kept exact, as the pair <<numerator, denominator>>.          *)

\* the length of the common run a[i..] = b[j..]
RECURSIVE common_run(_, _, _, _)
common_run(a, b, i, j) ==
    IF i > Len(a) \/ j > Len(b) THEN 0
    ELSE IF a[i] # b[j] THEN 0
    ELSE 1 + common_run(a, b, i + 1, j + 1)

\* SequenceMatcher.find_longest_match: the longest common block <<i, j, k>>
\* (a[i..i+k-1] = b[j..j+k-1]); of the longest blocks the one starting
\* earliest in a, and of those the one starting earliest in b; k = 0 if none
find_longest_match(a, b) ==
    LET blocks == {<<m[1], m[2], common_run(a, b, m[1], m[2])>> :
                      m \in {n \in (1..Len(a)) \X (1..Len(b)) : a[n[1]] = b[n[2]]}}
    IN  IF blocks = {} THEN <<1, 1, 0>>
        ELSE CHOOSE m \in blocks : \A n \in blocks :
                \/ m[3] > n[3]
                \/ m[3] = n[3] /\ m[1] < n[1]
                \/ m[3] = n[3] /\ m[1] = n[1] /\ m[2] <= n[2]

\* SequenceMatcher.get_matching_blocks, summed: the block found, then the
\* pieces to its left and to its right
RECURSIVE matching_size(_, _)
matching_size(a, b) ==
    LET m == find_longest_match(a, b)
    IN  IF m[3] = 0 THEN 0
        ELSE m[3]
             + matching_size(SubSeq(a, 1, m[1] - 1), SubSeq(b, 1, m[2] - 1))
             + matching_size(SubSeq(a, m[1] + m[3], Len(a)), SubSeq(b, m[2] + m[3], Len(b)))

\* mutant: the matches are not doubled
ratio_not_doubled(a, b) ==
    IF Len(a) + Len(b) = 0 THEN <<1, 1>>
    ELSE <<matching_size(a, b), Len(a) + Len(b)>>

\* SequenceMatcher.ratio: 2.0 * matches / length, and 1.0 for two empty strings
ratio(a, b) ==
    IF Len(a) + Len(b) = 0 THEN <<1, 1>>
    ELSE <<2 * matching_size(a, b), Len(a) + Len(b)>>

\* x >= y and max(x, y) on exact ratios
RatioGeq(x, y) == x[1] * y[2] >= y[1] * x[2]

RatioMax(x, y) == IF RatioGeq(x, y) THEN x ELSE y

----------------------------------------------------------------------------
(* The float of Python, as SearchEngine.search of src/src/search.py       *)
(* computes with it: IEEE 754 binary64, round to nearest, ties to even,    *)
(* for numbers >= 0.  A natural number of any size is the sequence of its  *)
(* digits to the base 2^13, lowest first, without leading zero digits; a   *)
(* float is m * 2^e with 2^52 <= m < 2^53, or 0.                           *)

BaseBits == 13

Base == 2^BaseBits

\* the digits of a sum of digit products, the carries taken over
RECURSIVE big_carry(_, _)
big_carry(digits, c) ==
    IF digits = <<>>
    THEN IF c = 0 THEN <<>> ELSE <<c % Base>> \o big_carry(<<>>, c \div Base)
    ELSE LET v == Head(digits) + c
         IN  <<v % Base>> \o big_carry(Tail(digits), v \div Base)

\* leading zero digits taken off
RECURSIVE big_strip(_)
big_strip(digits) ==
    IF digits = <<>> THEN <<>>
    ELSE IF digits[Len(digits)] = 0 THEN big_strip(SubSeq(digits, 1, Len(digits) - 1))
    ELSE digits

big_of_int(n) == big_strip(big_carry(<<n>>, 0))

Digit(a, k) == IF k <= Len(a) THEN a[k] ELSE 0

big_add(a, b) ==
    big_carry([k \in 1..(IF Len(a) >= Len(b) THEN Len(a) ELSE Len(b)) |->
                  Digit(a, k) + Digit(b, k)], 0)

\* the sum of the digit products a[i] * b[k + 1 - i]
RECURSIVE digit_products(_, _, _, _)
digit_products(a, b, k, i) ==
    IF i > Len(a) \/ i > k THEN 0
    ELSE (IF k + 1 - i <= Len(b) THEN a[i] * b[k + 1 - i] ELSE 0)
         + digit_products(a, b, k, i + 1)

big_mul(a, b) ==
    IF a = <<>> \/ b = <<>> THEN <<>>
    ELSE big_strip(big_carry([k \in 1..(Len(a) + Len(b) - 1) |->
                                 digit_products(a, b, k, 1)], 0))

\* a * 2^d
big_shl(a, d) ==
    IF a = <<>> THEN <<>>
    ELSE [k \in 1..(d \div BaseBits) |-> 0] \o big_mul(a, <<2^(d % BaseBits)>>)

\* floor(a / 2^d)
big_shr(a, d) ==
    LET q == d \div BaseBits
        r == d % BaseBits
    IN  big_strip([k \in 1..(Len(a) - q) |->
                     (a[k + q] \div 2^r) + (Digit(a, k + q + 1) % 2^r) * 2^(BaseBits - r)])

\* bit k of a, bit 0 the lowest
big_bit(a, k) == (Digit(a, k \div BaseBits + 1) \div 2^(k % BaseBits)) % 2

\* some bit of a below bit k is set
big_any_below(a, k) ==
    \/ \E j \in 1..(k \div BaseBits) : Digit(a, j) # 0
    \/ Digit(a, k \div BaseBits + 1) % 2^(k % BaseBits) # 0

RECURSIVE bit_length(_)
bit_length(n) == IF n = 0 THEN 0 ELSE 1 + bit_length(n \div 2)

big_bit_length(a) ==
    IF a = <<>> THEN 0 ELSE BaseBits * (Len(a) - 1) + bit_length(a[Len(a)])

\* a >= b
RECURSIVE big_geq_from(_, _, _)
big_geq_from(a, b, k) ==
    IF k = 0 THEN TRUE
    ELSE IF a[k] # b[k] THEN a[k] > b[k]
    ELSE big_geq_from(a, b, k - 1)

big_geq(a, b) ==
    IF Len(a) # Len(b) THEN Len(a) > Len(b) ELSE big_geq_from(a, b, Len(a))

\* floor(a / b) and a mod b for a divisor b of one digit, from digit k down
RECURSIVE big_divmod_from(_, _, _, _, _)
big_divmod_from(a, b, k, rem, quot) ==
    IF k = 0 THEN [quot |-> big_strip(quot), rem |-> rem]
    ELSE LET v == rem * Base + a[k]
         IN  big_divmod_from(a, b, k - 1, v % b, <<v \div b>> \o quot)

big_divmod(a, b) == big_divmod_from(a, b, Len(a), 0, <<>>)

float_zero == [m |-> <<>>, e |-> 0]

\* the float nearest to X * 2^e, or to a number just above it when sticky;
\* a tie goes to the even mantissa
float_round(X, sticky, e) ==
    LET L == big_bit_length(X)
    IN  IF X = <<>> THEN float_zero
        ELSE IF L <= 53 THEN [m |-> big_shl(X, 53 - L), e |-> e - (53 - L)]
        ELSE LET s    == L - 53
                 q    == big_shr(X, s)
                 half == big_bit(X, s - 1) = 1
                 rest == big_any_below(X, s - 1) \/ sticky
                 up   == half /\ (rest \/ big_bit(q, 0) = 1)
                 m    == IF up THEN big_add(q, <<1>>) ELSE q
             IN  IF big_bit_length(m) = 54
                 THEN [m |-> big_shr(m, 1), e |-> e + s + 1]
                 ELSE [m |-> m, e |-> e + s]

\* float(n) for an int n >= 0
float_of_int(n) == float_round(big_of_int(n), FALSE, 0)

\* x * y
float_mul(x, y) == float_round(big_mul(x.m, y.m), FALSE, x.e + y.e)

\* x + y
float_add(x, y) ==
    IF x.m = <<>> THEN y
    ELSE IF y.m = <<>> THEN x
    ELSE LET e == IF x.e <= y.e THEN x.e ELSE y.e
         IN  float_round(big_add(big_shl(x.m, x.e - e), big_shl(y.m, y.e - e)), FALSE, e)

\* float(a) / float(b) for ints a >= 0 and b > 0
float_div(a, b) ==
    LET d == big_divmod(big_shl(big_of_int(a), 6 * BaseBits), b)
    IN  float_round(d.quot, d.rem # 0, -(6 * BaseBits))

\* x >= y
float_geq(x, y) ==
    IF y.m = <<>> THEN TRUE
    ELSE IF x.m = <<>> THEN FALSE
    ELSE IF x.e # y.e THEN x.e > y.e
    ELSE big_geq(x.m, y.m)

----------------------------------------------------------------------------
(* The keyword taxonomy and the documents. *)

Prefixes(path) == {SubSeq(path, 1, k) : k \in 1..Len(path)}

\* CheatSheetManager._ensure_keyword_path_exists: walk the path from the
\* root and create each node that is missing
RECURSIVE ensure_from(_, _, _)
ensure_from(taxonomy, keyword_path, k) ==
    IF k > Len(keyword_path) THEN taxonomy
    ELSE LET chain == SubSeq(keyword_path, 1, k)
         IN  ensure_from(IF chain \notin taxonomy THEN taxonomy \cup {chain} ELSE taxonomy,
                         keyword_path, k + 1)

\* mutant: only the node of the full path is created, not the nodes above it
ensure_leaf_only(taxonomy, keyword_path) ==
    IF keyword_path = <<>> THEN taxonomy ELSE taxonomy \cup {keyword_path}

\* mutant: `current[keyword] = {}` without the test `keyword not in current`,
\* which empties every node the walk passes
ensure_overwrite(taxonomy, keyword_path) ==
    IF keyword_path = <<>> THEN taxonomy
    ELSE {c \in taxonomy : c[1] # keyword_path[1]} \cup Prefixes(keyword_path)

\* mutant: the walk stops after the first node it creates
RECURSIVE ensure_first_missing_from(_, _, _)
ensure_first_missing_from(taxonomy, keyword_path, k) ==
    IF k > Len(keyword_path) THEN taxonomy
    ELSE LET chain == SubSeq(keyword_path, 1, k)
         IN  IF chain \notin taxonomy THEN taxonomy \cup {chain}
             ELSE ensure_first_missing_from(taxonomy, keyword_path, k + 1)

ensure_first_missing(taxonomy, keyword_path) ==
    ensure_first_missing_from(taxonomy, keyword_path, 1)

ensure_keyword_path_exists(taxonomy, keyword_path) == ensure_from(taxonomy, keyword_path, 1)

\* the walk of get_keyword_children: `if keyword not in current: return []`
RECURSIVE walk(_, _, _)
walk(taxonomy, path, k) ==
    IF k > Len(path) THEN TRUE
    ELSE IF SubSeq(path, 1, k) \notin taxonomy THEN FALSE
    ELSE walk(taxonomy, path, k + 1)

\* the keys of the node at the end of the chain `path`
node_keys(taxonomy, path) ==
    {chain[Len(chain)] : chain \in {c \in taxonomy : Len(c) = Len(path) + 1
                                                    /\ SubSeq(c, 1, Len(path)) = path}}

\* mutant: a keyword that is missing sends the walk back to the top level
\* instead of ending the lookup
children_or_top_level(taxonomy, path) ==
    IF ~walk(taxonomy, path, 1) THEN node_keys(taxonomy, <<>>) ELSE node_keys(taxonomy, path)

\* CheatSheetManager.get_keyword_children (the keys, as a set)
get_keyword_children(taxonomy, path) ==
    IF ~walk(taxonomy, path, 1) THEN {} ELSE node_keys(taxonomy, path)

\* CheatSheetManager._is_prefix
RECURSIVE is_prefix_loop(_, _, _)
is_prefix_loop(prefix, full_path, i) ==
    IF i > Len(prefix) THEN TRUE
    ELSE IF full_path[i] # prefix[i] THEN FALSE
    ELSE is_prefix_loop(prefix, full_path, i + 1)

\* mutant: the comparison starts at the second element
is_prefix_from_second(prefix, full_path) ==
    IF Len(prefix) > Len(full_path) THEN FALSE
    ELSE is_prefix_loop(prefix, full_path, 2)

is_prefix(prefix, full_path) ==
    IF Len(prefix) > Len(full_path) THEN FALSE
    ELSE is_prefix_loop(prefix, full_path, 1)

\* the name check of add_cheatsheet: re.match(r'^[a-zA-Z0-9_-]+$', name)
name_matches(name) ==
    /\ Len(name) >= 1
    /\ \A i \in 1..Len(name) :
          name[i] \in LowerLetters \cup DOMAIN UpperToLower \cup Digits \cup {"_", "-"}

\* the dict add_cheatsheet builds; keyword_path = <<>> is None (or []): the
\* "keyword_path" key is then not set
new_cheatsheet(name, content, categories, keyword_path, description) ==
    [name |-> name, content |-> content, categories |-> categories,
     description |-> description,
     has_keyword_path |-> keyword_path # <<>>, keyword_path |-> keyword_path]

\* the dict object of DEFAULT_STORAGE_STRUCTURE = {"cheatsheets": []}
DefaultStructure ==
    [cheatsheets |-> <<>>, has_keyword_taxonomy |-> FALSE, keyword_taxonomy |-> {}]

\* no dict object (self.cheatsheets is DEFAULT_STORAGE_STRUCTURE itself)
NoDict == DefaultStructure

\* self.cheatsheets: the module-level dict itself when _load_cheatsheets
\* returned DEFAULT_STORAGE_STRUCTURE, else the dict json.load built
self_cheatsheets == IF self.aliased THEN DEFAULT_STORAGE_STRUCTURE ELSE loaded

\* self.cheatsheets["cheatsheets"] and self.cheatsheets["keyword_taxonomy"]
cheatsheets == self_cheatsheets.cheatsheets

keyword_taxonomy == self_cheatsheets.keyword_taxonomy

\* a write through self.cheatsheets lands in the object it refers to
SetDict(d) ==
    IF self.aliased
    THEN DEFAULT_STORAGE_STRUCTURE' = d /\ UNCHANGED loaded
    ELSE loaded' = d /\ UNCHANGED DEFAULT_STORAGE_STRUCTURE

\* CheatSheetManager._save_cheatsheets: json.dump(self.cheatsheets) to the
\* storage path (the file is taken to be writable)
save_cheatsheets(d) ==
    files' = [files EXCEPT ![self.storage_path] = [kind |-> "json", data |-> d]]

----------------------------------------------------------------------------
(* CheatSheetManager: the operations, as functions of the dict. *)

\* CheatSheetManager._load_cheatsheets followed by the rest of __init__:
\* what a manager built on `path` leaves in the files, in
\* DEFAULT_STORAGE_STRUCTURE, and which dict it holds
construct(path, fs, default) ==
    LET \* a missing file is created from DEFAULT_STORAGE_STRUCTURE, and a
        \* missing or undecodable file makes the load return that very object
        aliased == fs[path].kind # "json"
        fs1     == IF fs[path].kind = "missing"
                   THEN [fs EXCEPT ![path] = [kind |-> "json", data |-> default]]
                   ELSE fs
        d0      == IF aliased THEN default ELSE fs[path].data
        \* if "keyword_taxonomy" not in self.cheatsheets: set it and save
        d1      == IF d0.has_keyword_taxonomy THEN d0
                   ELSE [d0 EXCEPT !.has_keyword_taxonomy = TRUE, !.keyword_taxonomy = {}]
        fs2     == IF d0.has_keyword_taxonomy THEN fs1
                   ELSE [fs1 EXCEPT ![path] = [kind |-> "json", data |-> d1]]
    IN  [files   |-> fs2,
         default |-> IF aliased THEN d1 ELSE default,
         loaded  |-> IF aliased THEN NoDict ELSE d1,
         self    |-> [storage_path |-> path, aliased |-> aliased],
         load    |-> fs[path].kind]

\* mutant: the test for a document of the same name is left out
add_without_name_test(d, name, content, categories, keyword_path, description) ==
    IF ~name_matches(name) THEN [ok |-> FALSE, dict |-> d]
    ELSE LET cs == new_cheatsheet(name, content, categories, keyword_path, description)
             tx == IF keyword_path # <<>>
                   THEN ensure_keyword_path_exists(d.keyword_taxonomy, keyword_path)
                   ELSE d.keyword_taxonomy
         IN  [ok |-> TRUE,
              dict |-> [d EXCEPT !.cheatsheets = Append(@, cs), !.keyword_taxonomy = tx]]

\* mutant: the keyword path is entered in the taxonomy before the name is
\* checked
add_ensure_first(d, name, content, categories, keyword_path, description) ==
    LET tx == IF keyword_path # <<>>
              THEN ensure_keyword_path_exists(d.keyword_taxonomy, keyword_path)
              ELSE d.keyword_taxonomy
        d1 == [d EXCEPT !.keyword_taxonomy = tx]
    IN  IF ~name_matches(name) THEN [ok |-> FALSE, dict |-> d1]
        ELSE IF \E i \in 1..Len(d.cheatsheets) : d.cheatsheets[i].name = name
        THEN [ok |-> FALSE, dict |-> d1]
        ELSE [ok |-> TRUE,
              dict |-> [d1 EXCEPT !.cheatsheets =
                            Append(@, new_cheatsheet(name, content, categories,
                                                     keyword_path, description))]]

\* CheatSheetManager.add_cheatsheet up to the save: the value returned before
\* the save (FALSE: rejected) and the dict afterwards
add_cheatsheet(d, name, content, categories, keyword_path, description) ==
    IF ~name_matches(name) THEN [ok |-> FALSE, dict |-> d]
    ELSE IF \E i \in 1..Len(d.cheatsheets) : d.cheatsheets[i].name = name
    THEN [ok |-> FALSE, dict |-> d]
    ELSE LET cs == new_cheatsheet(name, content, categories, keyword_path, description)
             tx == IF keyword_path # <<>>
                   THEN ensure_keyword_path_exists(d.keyword_taxonomy, keyword_path)
                   ELSE d.keyword_taxonomy
         IN  [ok |-> TRUE,
              dict |-> [d EXCEPT !.cheatsheets = Append(@, cs), !.keyword_taxonomy = tx]]

\* mutant: the node a removed document was filed at is deleted with it
remove_and_prune(d, name) ==
    LET Keep(cs) == cs.name # name
        kept == SelectSeq(d.cheatsheets, Keep)
        gone == {d.cheatsheets[i].keyword_path :
                    i \in {j \in 1..Len(d.cheatsheets) :
                              /\ d.cheatsheets[j].name = name
                              /\ d.cheatsheets[j].has_keyword_path}}
    IN  [ok |-> Len(kept) # Len(d.cheatsheets),
         dict |-> [d EXCEPT !.cheatsheets = kept,
                            !.keyword_taxonomy =
                                {c \in @ : \A p \in gone :
                                              ~(Len(p) <= Len(c) /\ SubSeq(c, 1, Len(p)) = p)}]]

\* CheatSheetManager.remove_cheatsheet up to the save
remove_cheatsheet(d, name) ==
    LET Keep(cs) == cs.name # name
        kept == SelectSeq(d.cheatsheets, Keep)
    IN  [ok |-> Len(kept) # Len(d.cheatsheets), dict |-> [d EXCEPT !.cheatsheets = kept]]

\* the loop of CheatSheetManager.migrate_categories_to_paths, from document i
RECURSIVE migrate_loop(_, _, _, _)
migrate_loop(d, i, default_root, migrated) ==
    IF i > Len(d.cheatsheets) THEN [migrated |-> migrated, dict |-> d]
    ELSE LET cs == d.cheatsheets[i]
         IN  IF ~cs.has_keyword_path /\ cs.categories # <<>>
             THEN LET path == <<default_root, cs.categories[1]>>
                  IN  migrate_loop(
                        [d EXCEPT !.cheatsheets[i] =
                                      [cs EXCEPT !.has_keyword_path = TRUE,
                                                 !.keyword_path = path],
                                  !.keyword_taxonomy =
                                      ensure_keyword_path_exists(@, path)],
                        i + 1, default_root, migrated + 1)
             ELSE migrate_loop(d, i + 1, default_root, migrated)

\* mutant: the test `"keyword_path" not in cs` is left out, so a document that
\* has a keyword_path and a category is given a new path
migrate_every_document(d, default_root) ==
    LET todo == {i \in 1..Len(d.cheatsheets) : d.cheatsheets[i].categories # <<>>}
        path(i) == <<default_root, d.cheatsheets[i].categories[1]>>
    IN  [migrated |-> Cardinality(todo),
         dict |-> [d EXCEPT
                     !.cheatsheets =
                         [i \in 1..Len(d.cheatsheets) |->
                             IF i \in todo
                             THEN [d.cheatsheets[i] EXCEPT !.has_keyword_path = TRUE,
                                                           !.keyword_path = path(i)]
                             ELSE d.cheatsheets[i]],
                     !.keyword_taxonomy = @ \cup UNION {Prefixes(path(i)) : i \in todo}]]

\* mutant: the path is entered in the taxonomy and the document is counted,
\* but the path is set on a copy of the document and not on the stored one
migrate_without_marking(d, default_root) ==
    LET todo == {i \in 1..Len(d.cheatsheets) :
                    /\ ~d.cheatsheets[i].has_keyword_path
                    /\ d.cheatsheets[i].categories # <<>>}
    IN  [migrated |-> Cardinality(todo),
         dict |-> [d EXCEPT !.keyword_taxonomy =
                      @ \cup UNION {Prefixes(<<default_root, d.cheatsheets[i].categories[1]>>) :
                                       i \in todo}]]

migrate_categories_to_paths(d, default_root) == migrate_loop(d, 1, default_root, 0)

\* mutant: exact_match is not looked at, every call matches by prefix
search_by_prefix_only(docs, path, exact_match) ==
    LET Match(cs) == cs.has_keyword_path /\ is_prefix(path, cs.keyword_path)
    IN  SelectSeq(docs, Match)

\* CheatSheetManager.search_by_keyword_path
search_by_keyword_path(docs, path, exact_match) ==
    LET Match(cs) ==
            /\ cs.has_keyword_path
            /\ \/ exact_match /\ cs.keyword_path = path
               \/ ~exact_match /\ is_prefix(path, cs.keyword_path)
    IN  SelectSeq(docs, Match)

\* the field tests of CheatSheetManager.search_cheatsheets, query lower-cased
query_matches(query, cs) ==
    \/ Contains(query, lower(cs.name))
    \/ \E i \in 1..Len(cs.categories) : Contains(query, lower(cs.categories[i]))
    \/ cs.has_keyword_path
         /\ \E i \in 1..Len(cs.keyword_path) : Contains(query, lower(cs.keyword_path[i]))
    \/ Contains(query, lower(cs.description))
    \/ Contains(query, lower(cs.content))

\* mutant: the path filter is left out
search_cheatsheets_unfiltered(docs, query, path) ==
    LET Match(cs) == query_matches(lower(query), cs)
    IN  SelectSeq(docs, Match)

\* CheatSheetManager.search_cheatsheets; path = <<>> is None (or [])
search_cheatsheets(docs, query, path) ==
    LET candidates == IF path # <<>> THEN search_by_keyword_path(docs, path, FALSE)
                      ELSE docs
        Match(cs) == query_matches(lower(query), cs)
    IN  SelectSeq(candidates, Match)

\* SearchEngine.basic_search
basic_search(docs, query, keyword_path) == search_cheatsheets(docs, query, keyword_path)

\* mutant: the documents are counted with exact_match=True, so that only the
\* documents filed at the child itself are counted
list_keywords_exact(d, path, include_cheatsheet_count) ==
    [child \in get_keyword_children(d.keyword_taxonomy, path) |->
        IF include_cheatsheet_count
        THEN Len(search_by_keyword_path(d.cheatsheets, Append(path, child), TRUE))
        ELSE {}]

\* CheatSheetManager.list_keywords: the dict child -> count, or child -> {}
\* (an empty dict) without the counts, as a function
list_keywords(d, path, include_cheatsheet_count) ==
    [child \in get_keyword_children(d.keyword_taxonomy, path) |->
        IF include_cheatsheet_count
        THEN Len(search_by_keyword_path(d.cheatsheets, Append(path, child), FALSE))
        ELSE {}]

----------------------------------------------------------------------------
(* SearchEngine. *)

\* the tokens _create_index files document cs under: name, categories,
\* keyword path (when the key is there), description, content
indexed_tokens(cs) ==
    Range(tokenize(cs.name))
    \cup UNION {Range(tokenize(cs.categories[i])) : i \in 1..Len(cs.categories)}
    \cup (IF cs.has_keyword_path
          THEN UNION {Range(tokenize(cs.keyword_path[i])) : i \in 1..Len(cs.keyword_path)}
          ELSE {})
    \cup Range(tokenize(cs.description))
    \cup Range(tokenize(cs.content))

\* SearchEngine._create_index: token -> the positions of the documents
create_index(docs) ==
    LET tokens == [i \in 1..Len(docs) |-> indexed_tokens(docs[i])]
    IN  [token \in UNION {tokens[i] : i \in 1..Len(docs)} |->
            {i \in 1..Len(docs) : token \in tokens[i]}]

\* mutant: the posting sets are united instead of intersected
RECURSIVE unite_postings(_, _, _, _)
unite_postings(index, query_tokens, k, matching_docs) ==
    IF k > Len(query_tokens) THEN matching_docs
    ELSE IF query_tokens[k] \notin DOMAIN index THEN {}
    ELSE unite_postings(index, query_tokens, k + 1,
             matching_docs \cup index[query_tokens[k]])

\* mutant: matching_docs starts as the empty set instead of None, so the
\* first posting set is intersected with it
RECURSIVE intersect_from_empty(_, _, _, _)
intersect_from_empty(index, query_tokens, k, matching_docs) ==
    IF k > Len(query_tokens) THEN matching_docs
    ELSE IF query_tokens[k] \notin DOMAIN index THEN {}
    ELSE intersect_from_empty(index, query_tokens, k + 1,
             matching_docs \cap index[query_tokens[k]])

\* the token loop of full_text_search; a token not in the index returns []
RECURSIVE intersect_postings(_, _, _, _)
intersect_postings(index, query_tokens, k, matching_docs) ==
    IF k > Len(query_tokens) THEN matching_docs
    ELSE IF query_tokens[k] \notin DOMAIN index THEN {}
    ELSE intersect_postings(index, query_tokens, k + 1,
             IF k = 1 THEN index[query_tokens[k]]
             ELSE matching_docs \cap index[query_tokens[k]])

\* the positions full_text_search is left with before the path filter
full_text_matching(docs, query) ==
    LET query_tokens == tokenize(query)
    IN  IF query_tokens = <<>> THEN {}
        ELSE intersect_postings(create_index(docs), query_tokens, 1, {})

\* the orders in which a Python set of positions may be iterated
Orders(positions) ==
    {order \in [1..Cardinality(positions) -> positions] :
        \A i, j \in DOMAIN order : i # j => order[i] # order[j]}

\* mutant: the arguments of _is_prefix are swapped
path_filter_swapped(results, keyword_path) ==
    LET Under(cs) == cs.has_keyword_path /\ is_prefix(cs.keyword_path, keyword_path)
    IN  IF keyword_path # <<>> THEN SelectSeq(results, Under) ELSE results

\* the keyword-path filter of full_text_search
path_filter(results, keyword_path) ==
    LET Under(cs) == cs.has_keyword_path /\ is_prefix(keyword_path, cs.keyword_path)
    IN  IF keyword_path # <<>> THEN SelectSeq(results, Under) ELSE results

\* SearchEngine.full_text_search, the matching set iterated in `order`
full_text_search(docs, query, keyword_path, order) ==
    path_filter([i \in 1..Len(order) |-> docs[order[i]]], keyword_path)

\* the score fuzzy_search gives a document: the largest ratio of the
\* lower-cased query to its name, categories and keyword-path segments
RECURSIVE max_ratio(_, _, _, _)
max_ratio(query, strings, k, best) ==
    IF k > Len(strings) THEN best
    ELSE max_ratio(query, strings, k + 1, RatioMax(best, ratio(query, lower(strings[k]))))

\* mutant: the content is scored too
max_similarity_with_content(query, cs) ==
    LET name_similarity     == ratio(query, lower(cs.name))
        category_similarity == max_ratio(query, cs.categories, 1, <<0, 1>>)
        path_similarity     == IF cs.has_keyword_path
                               THEN max_ratio(query, cs.keyword_path, 1, <<0, 1>>)
                               ELSE <<0, 1>>
    IN  RatioMax(RatioMax(RatioMax(name_similarity, category_similarity), path_similarity),
                 ratio(query, lower(cs.content)))

max_similarity(query, cs) ==
    LET name_similarity     == ratio(query, lower(cs.name))
        category_similarity == max_ratio(query, cs.categories, 1, <<0, 1>>)
        path_similarity     == IF cs.has_keyword_path
                               THEN max_ratio(query, cs.keyword_path, 1, <<0, 1>>)
                               ELSE <<0, 1>>
    IN  RatioMax(RatioMax(name_similarity, category_similarity), path_similarity)

\* mutant: the sort is ascending (reverse=True left out)
insert_asc(sorted, x) ==
    LET n == Cardinality({i \in 1..Len(sorted) : RatioGeq(x.score, sorted[i].score)})
    IN  SubSeq(sorted, 1, n) \o <<x>> \o SubSeq(sorted, n + 1, Len(sorted))

\* mutant: an ascending sort turned round, which turns the ties round too; x
\* goes before the entries of its own score
insert_desc_before_ties(sorted, x) ==
    LET n == Cardinality({i \in 1..Len(sorted) : ~RatioGeq(x.score, sorted[i].score)})
    IN  SubSeq(sorted, 1, n) \o <<x>> \o SubSeq(sorted, n + 1, Len(sorted))

\* list.sort(key=score, reverse=True): descending and stable; x goes behind
\* the entries that score at least as much
insert_desc(sorted, x) ==
    LET n == Cardinality({i \in 1..Len(sorted) : RatioGeq(sorted[i].score, x.score)})
    IN  SubSeq(sorted, 1, n) \o <<x>> \o SubSeq(sorted, n + 1, Len(sorted))

RECURSIVE sort_desc(_, _, _)
sort_desc(results, k, sorted) ==
    IF k > Len(results) THEN sorted
    ELSE sort_desc(results, k + 1, insert_desc(sorted, results[k]))

\* SearchEngine.fuzzy_search
fuzzy_search(docs, query, threshold) ==
    LET scored == [i \in 1..Len(docs) |->
                      [cs |-> docs[i], score |-> max_similarity(lower(query), docs[i])]]
        Pass(r) == RatioGeq(r.score, threshold)
        results == sort_desc(SelectSeq(scored, Pass), 1, <<>>)
    IN  [i \in 1..Len(results) |-> results[i].cs]

\* the documents semantic_search ranks: under the path, or all of them
semantic_candidates(docs, keyword_path) ==
    IF keyword_path # <<>> THEN search_by_keyword_path(docs, keyword_path, FALSE)
    ELSE docs

\* mutant: the candidates of similarity 0 are kept (`score >= 0`)
semantic_ranking_keep_zero(candidates, similarities) ==
    LET scored == [i \in 1..Len(candidates) |->
                      [cs |-> candidates[i], score |-> <<similarities[i], 1>>]]
        sorted == sort_desc(scored, 1, <<>>)
    IN  [i \in 1..Len(sorted) |-> sorted[i].cs]

\* the ranking of semantic_search: similarities[i] is the cosine similarity
\* sklearn computed for candidate i, as an integer grade
semantic_ranking(candidates, similarities) ==
    LET scored == [i \in 1..Len(candidates) |->
                      [cs |-> candidates[i], score |-> <<similarities[i], 1>>]]
        sorted == sort_desc(scored, 1, <<>>)
        Positive(r) == r.score[1] > 0
        kept   == SelectSeq(sorted, Positive)
    IN  [i \in 1..Len(kept) |-> kept[i].cs]

\* SearchEngine.semantic_search.  `from sklearn... import TfidfVectorizer`
\* stands before the try block, so a runtime without sklearn raises
\* ImportError out of the call; the except ImportError branch (warning, then
\* basic_search) covers only the statements inside the try block
semantic_search(docs, query, keyword_path, available, similarities) ==
    LET candidates == semantic_candidates(docs, keyword_path)
    IN  IF candidates = <<>> THEN [raised |-> FALSE, warned |-> FALSE, result |-> <<>>]
        ELSE IF tokenize(query) = <<>>
        THEN [raised |-> FALSE, warned |-> FALSE, result |-> <<>>]
        ELSE IF ~available
        THEN [raised |-> TRUE, warned |-> FALSE, result |-> <<>>]
        ELSE [raised |-> FALSE, warned |-> FALSE,
              result |-> semantic_ranking(candidates, similarities)]

----------------------------------------------------------------------------
(* MigrationTool. *)

\* position of the first category that is a key of `mapping`, 0 if none
RECURSIVE first_match(_, _, _)
first_match(categories, keys, k) ==
    IF k > Len(categories) THEN 0
    ELSE IF categories[k] \in keys THEN k
    ELSE first_match(categories, keys, k + 1)

\* build_paths of apply_suggested_hierarchy: key -> [root] + its chain (the
\* taxonomies handed in name each key once)
category_to_path(taxonomy, root) ==
    [key \in {chain[Len(chain)] : chain \in taxonomy} |->
        <<root>> \o (CHOOSE chain \in taxonomy : chain[Len(chain)] = key)]

\* MigrationTool.apply_suggested_hierarchy up to the save: only the
\* documents are written, the manager's keyword_taxonomy is not touched
apply_suggested_hierarchy(d, taxonomy, root) ==
    LET mapping == category_to_path(taxonomy, root)
        Best(cs) == first_match(cs.categories, DOMAIN mapping, 1)
        Hit(cs)  == ~cs.has_keyword_path /\ Best(cs) # 0
        docs     == [i \in 1..Len(d.cheatsheets) |->
                        LET cs == d.cheatsheets[i]
                        IN  IF Hit(cs)
                            THEN [cs EXCEPT !.has_keyword_path = TRUE,
                                            !.keyword_path = mapping[cs.categories[Best(cs)]]]
                            ELSE cs]
    IN  [updated |-> Cardinality({i \in 1..Len(d.cheatsheets) : Hit(d.cheatsheets[i])}),
         dict    |-> [d EXCEPT !.cheatsheets = docs]]

\* the tables of suggest_keyword_path
languages ==
    <<S.python, S.javascript, S.java, S.cpp, S.csharp, S.ruby, S.php, S.go, S.rust>>

domains ==
    << <<S.git, <<S.Computers, S.Version_Control, S.Git>> >>,
       <<S.docker, <<S.Computers, S.Containerization, S.Docker>> >>,
       <<S.linux, <<S.Computers, S.Operating_Systems, S.Linux>> >>,
       <<S.windows, <<S.Computers, S.Operating_Systems, S.Windows>> >>,
       <<S.bash, <<S.Computers, S.Shell, S.Bash>> >>,
       <<S.sql, <<S.Computers, S.Databases, S.SQL>> >> >>

\* MigrationTool.suggest_keyword_path
suggest_keyword_path(cs) ==
    LET content_lower == lower(cs.content)
        langs == {k \in 1..Len(languages) : Contains(languages[k], content_lower)}
        doms  == {k \in 1..Len(domains) : Contains(domains[k][1], content_lower)}
        First(ks) == CHOOSE k \in ks : \A other \in ks : k <= other
    IN  IF cs.categories # <<>> THEN <<S.Uncategorized, cs.categories[1]>>
        ELSE IF langs # {}
        THEN <<S.Computers, S.Programming, capitalize(languages[First(langs)])>>
        ELSE IF doms # {} THEN domains[First(doms)][2]
        ELSE <<S.Uncategorized>>

\* MigrationTool.batch_migrate(interactive=False, defaults) up to the save:
\* every document without a keyword_path gets one; the manager's
\* keyword_taxonomy is not touched
batch_migrate(d, defaults) ==
    LET Path(cs) == LET k == first_match(cs.categories, DOMAIN defaults, 1)
                    IN  IF k # 0 THEN defaults[cs.categories[k]]
                        ELSE suggest_keyword_path(cs)
        docs == [i \in 1..Len(d.cheatsheets) |->
                    LET cs == d.cheatsheets[i]
                    IN  IF cs.has_keyword_path THEN cs
                        ELSE [cs EXCEPT !.has_keyword_path = TRUE,
                                        !.keyword_path = Path(cs)]]
    IN  [migrated |-> Cardinality({i \in 1..Len(d.cheatsheets) :
                                      ~d.cheatsheets[i].has_keyword_path}),
         dict     |-> [d EXCEPT !.cheatsheets = docs]]

----------------------------------------------------------------------------
(* Category and CategoryManager (src/src/category.py).  A Category object  *)
(* is named by the chain of keys that leads to it from root_categories; a  *)
(* dict is the sequence of its keys in insertion order; the parent         *)
(* reference is the chain of the parent, None the empty chain.             *)

None == <<>>

\* Category(name=name, parent=parent)
Category(name, parent) ==
    [name |-> name, subcategories |-> <<>>, cheatsheets |-> <<>>, parent |-> parent]

\* mutant: a duplicate name replaces the entry instead of raising
add_subcategory_replacing(cm, chain, name) ==
    [raised |-> FALSE,
     manager |->
        [cm EXCEPT !.categories =
            (Append(chain, name) :> Category(name, chain))
            @@ [c \in {d \in DOMAIN cm.categories :
                          ~(Len(d) > Len(chain) + 1
                            /\ SubSeq(d, 1, Len(chain) + 1) = Append(chain, name))} |->
                   IF c = chain /\ name \notin Range(cm.categories[c].subcategories)
                   THEN [cm.categories[c] EXCEPT !.subcategories = Append(@, name)]
                   ELSE cm.categories[c]]]]

\* Category.add_subcategory on the category at `chain`: ValueError for a name
\* that is a key of subcategories, else the new Category is entered
add_subcategory(cm, chain, name) ==
    IF name \in Range(cm.categories[chain].subcategories)
    THEN [raised |-> TRUE, manager |-> cm]
    ELSE [raised |-> FALSE,
          manager |->
             [cm EXCEPT !.categories =
                 (Append(chain, name) :> Category(name, chain))
                 @@ [@ EXCEPT ![chain].subcategories = Append(@, name)]]]

\* Category.add_cheatsheet on the category at `chain`
Category_add_cheatsheet(cm, chain, cheatsheet) ==
    IF \E k \in 1..Len(cm.categories[chain].cheatsheets) :
           cm.categories[chain].cheatsheets[k].name = cheatsheet.name
    THEN [raised |-> TRUE, manager |-> cm]
    ELSE [raised |-> FALSE,
          manager |-> [cm EXCEPT !.categories[chain].cheatsheets = Append(@, cheatsheet)]]

\* CategoryManager.add_root_category
add_root_category(cm, name) ==
    IF name \in Range(cm.root_categories)
    THEN [raised |-> TRUE, manager |-> cm]
    ELSE [raised |-> FALSE,
          manager |->
             [root_categories |-> Append(cm.root_categories, name),
              categories |-> (<<name>> :> Category(name, None)) @@ cm.categories]]

\* path.split('/'): cut at every '/', empty pieces kept
RECURSIVE split_slash(_, _, _)
split_slash(path, part, parts) ==
    IF path = <<>> THEN Append(parts, part)
    ELSE IF Head(path) = "/" THEN split_slash(Tail(path), <<>>, Append(parts, part))
    ELSE split_slash(Tail(path), Append(part, Head(path)), parts)

\* '/'.join(parts)
RECURSIVE join_slash(_)
join_slash(parts) ==
    IF parts = <<>> THEN <<>>
    ELSE IF Len(parts) = 1 THEN parts[1]
    ELSE parts[1] \o <<"/">> \o join_slash(Tail(parts))

\* the loop of Category.get_subcategory from part k on: '' is skipped, a part
\* that is no key of subcategories gives None
RECURSIVE get_subcategory_loop(_, _, _, _)
get_subcategory_loop(cm, current, parts, k) ==
    IF k > Len(parts) THEN current
    ELSE IF parts[k] = <<>> THEN get_subcategory_loop(cm, current, parts, k + 1)
    ELSE IF parts[k] \notin Range(cm.categories[current].subcategories) THEN None
    ELSE get_subcategory_loop(cm, Append(current, parts[k]), parts, k + 1)

\* Category.get_subcategory
get_subcategory(cm, chain, path) ==
    get_subcategory_loop(cm, chain, split_slash(path, <<>>, <<>>), 1)

\* CategoryManager.get_category: the chain of the category, or None
get_category(cm, path) ==
    IF path = <<>> THEN None
    ELSE LET parts == split_slash(path, <<>>, <<>>)
             root_name == parts[1]
         IN  IF root_name \notin Range(cm.root_categories) THEN None
             ELSE IF Len(parts) = 1 THEN <<root_name>>
             ELSE get_subcategory(cm, <<root_name>>, join_slash(Tail(parts)))

\* CategoryManager.add_cheatsheet: False when there is no such category
CategoryManager_add_cheatsheet(cm, path, cheatsheet) ==
    LET category == get_category(cm, path)
    IN  IF category = None
        THEN [raised |-> FALSE, returned |-> FALSE, category |-> None, manager |-> cm]
        ELSE LET r == Category_add_cheatsheet(cm, category, cheatsheet)
             IN  [raised |-> r.raised, returned |-> ~r.raised, category |-> category,
                  manager |-> r.manager]

\* CheatSheet.matches_search
matches_search(cheatsheet, query) ==
    LET query_lower == lower(query)
    IN  \/ Contains(query_lower, lower(cheatsheet.name))
        \/ \E i \in 1..Len(cheatsheet.tags) : Contains(query_lower, lower(cheatsheet.tags[i]))

\* Category.get_path
RECURSIVE get_path(_, _)
get_path(cm, chain) ==
    IF cm.categories[chain].parent = None THEN cm.categories[chain].name
    ELSE get_path(cm, cm.categories[chain].parent) \o <<"/">> \o cm.categories[chain].name

\* Category.search: the matching cheat sheets of the category, each with the
\* path of the category, then those of the subcategories from number k on,
\* in the order of the dict
RECURSIVE Category_search(_, _, _)
RECURSIVE search_subcategories(_, _, _, _)
search_subcategories(cm, chain, query, k) ==
    IF k > Len(cm.categories[chain].subcategories) THEN <<>>
    ELSE Category_search(cm, Append(chain, cm.categories[chain].subcategories[k]), query)
         \o search_subcategories(cm, chain, query, k + 1)

Category_search(cm, chain, query) ==
    LET Matches(cheatsheet) == matches_search(cheatsheet, query)
        found == SelectSeq(cm.categories[chain].cheatsheets, Matches)
    IN  [i \in 1..Len(found) |-> [cheatsheet |-> found[i], category_path |-> get_path(cm, chain)]]
        \o search_subcategories(cm, chain, query, 1)

\* CategoryManager.search: the root categories from number k on
RECURSIVE CategoryManager_search(_, _, _)
CategoryManager_search(cm, query, k) ==
    IF k > Len(cm.root_categories) THEN <<>>
    ELSE Category_search(cm, <<cm.root_categories[k]>>, query)
         \o CategoryManager_search(cm, query, k + 1)

----------------------------------------------------------------------------
(* SearchEngine of src/src/search.py.  A score is an int or a float of      *)
(* Python; both are kept as the float of the same value, which is exact    *)
(* for the ints there are and is what the arithmetic and the comparisons   *)
(* of Python make of an int next to a float.                               *)

\* SearchEngine._calculate_score.  With fuzzywuzzy installed the score is
\* the int fuzz.partial_ratio gives: partial_ratio maps the lower-cased
\* text to the grade the library gives it against the query
calculate_score(query, text, HAVE_FUZZYWUZZY, partial_ratio) ==
    IF HAVE_FUZZYWUZZY
    THEN float_of_int(partial_ratio[lower(text)])
    ELSE LET r == ratio(lower(query), lower(text))
         IN  float_mul(float_div(r[1], r[2]), float_of_int(100))

\* max(x, y) of Python: the first of two equal numbers
float_max(x, y) == IF float_geq(x, y) THEN x ELSE y

\* max(tag_scores) if tag_scores else 0
RECURSIVE max_tag_score(_)
max_tag_score(tag_scores) ==
    IF tag_scores = <<>> THEN float_zero
    ELSE float_max(Head(tag_scores), max_tag_score(Tail(tag_scores)))

\* the literals 0.7 and 0.3: the floats nearest to 7/10 and to 3/10
float_0_7 == float_div(7, 10)

float_0_3 == float_div(3, 10)

\* mutant: the weighted sum alone
final_score_weighted(name_score, tag_score) ==
    float_add(float_mul(name_score, float_0_7), float_mul(tag_score, float_0_3))

\* max(name_score * 0.7 + max_tag_score * 0.3, name_score, max_tag_score)
final_score(name_score, tag_score) ==
    float_max(float_max(float_add(float_mul(name_score, float_0_7),
                                  float_mul(tag_score, float_0_3)),
                        name_score),
              tag_score)

\* results.sort(key=lambda x: x.score, reverse=True): descending and stable;
\* x goes behind the results that score at least as much
insert_by_score(sorted, x) ==
    LET n == Cardinality({i \in 1..Len(sorted) : float_geq(sorted[i].score, x.score)})
    IN  SubSeq(sorted, 1, n) \o <<x>> \o SubSeq(sorted, n + 1, Len(sorted))

RECURSIVE sort_by_score(_, _, _)
sort_by_score(results, k, sorted) ==
    IF k > Len(results) THEN sorted
    ELSE sort_by_score(results, k + 1, insert_by_score(sorted, results[k]))

\* SearchEngine.search: the list of SearchResult objects
search(cm, query, min_score, HAVE_FUZZYWUZZY, partial_ratio) ==
    IF query = <<>> THEN <<>>
    ELSE LET raw_matches == CategoryManager_search(cm, query, 1)
             Score(text) == calculate_score(query, text, HAVE_FUZZYWUZZY, partial_ratio)
             scored == [i \in 1..Len(raw_matches) |->
                           LET cheatsheet == raw_matches[i].cheatsheet
                               name_score == Score(cheatsheet.name)
                               tag_scores == [j \in 1..Len(cheatsheet.tags) |->
                                                 Score(cheatsheet.tags[j])]
                           IN  [cheatsheet |-> cheatsheet,
                                category_path |-> raw_matches[i].category_path,
                                score |-> final_score(name_score, max_tag_score(tag_scores))]]
             Pass(r) == float_geq(r.score, min_score)
         IN  sort_by_score(SelectSeq(scored, Pass), 1, <<>>)

----------------------------------------------------------------------------
(* The inputs. *)

GitPath == <<S.Computers, S.VCS, S.Git>>

ShellPath == <<S.Computers, S.Shell>>

\* the three documents of the example store, and two legacy documents
GitBasics == new_cheatsheet(S.git_basics, S.c_git_init, <<S.git>>, GitPath, S.d_basics)

GitAdvanced == new_cheatsheet(S.git_advanced, S.c_rebase, <<>>, GitPath, S.empty)

BashTips == new_cheatsheet(S.bash_tips, S.c_ls, <<S.bash>>, ShellPath, S.empty)

Notes == new_cheatsheet(S.notes, S.c_hooks, <<S.git, S.hooks>>, <<>>, S.empty)

Misc == new_cheatsheet(S.misc, S.c_python, <<>>, <<>>, S.empty)

\* a document filed at an inner node of the taxonomy, above git-basics
VcsOverview == new_cheatsheet(S.VCS, S.git, <<>>, <<S.Computers, S.VCS>>, S.empty)

\* the legacy document notes handed in once more, now with a keyword_path
NotesFiled ==
    new_cheatsheet(S.notes, S.c_hooks, <<S.git, S.hooks>>, <<S.Uncategorized, S.git>>, S.empty)

\* the arguments add_cheatsheet is called with (the last name is rejected)
AddInputs ==
    {GitBasics, GitAdvanced, BashTips, Notes, NotesFiled, Misc, VcsOverview,
     new_cheatsheet(S.bad_name, S.c_ls, <<>>, ShellPath, S.empty)}

Names == {a.name : a \in AddInputs}

Roots == {S.Uncategorized, S.Computers}

\* keyword-path arguments of the searches; <<>> is "no filter"
PathInputs == {<<>>, <<S.Computers>>, <<S.Computers, S.VCS>>, <<S.Uncategorized, S.git>>}

QueryInputs ==
    {S.empty, S.q_punct, S.git, S.q_GIT, S.q_git_basics, S.q_git_git, S.q_git_none}

FuzzyQueries == {S.empty, S.q_gti, S.bash, S.git_basics, S.c_ls}

\* thresholds 0.7 (the default), 0.6 and 0.5, as fractions
Thresholds == {<<7, 10>>, <<6, 10>>, <<1, 2>>}

SemanticQueries == {S.empty, S.q_punct, S.git}

SemanticPaths == {<<>>, <<S.Computers, S.VCS>>}

\* taxonomies handed to apply_suggested_hierarchy
TaxonomyInputs == { {<<S.git>>, <<S.git, S.hooks>>}, {<<S.bash>>} }

\* the defaults handed to batch_migrate: none, or a path for "git"
DefaultsInputs == { [c \in {} |-> <<>>], [c \in {S.git} |-> GitPath] }

ExampleStore ==
    [cheatsheets |-> <<GitBasics, GitAdvanced, BashTips>>,
     has_keyword_taxonomy |-> TRUE,
     keyword_taxonomy |-> Prefixes(GitPath) \cup Prefixes(ShellPath)]

LegacyStore ==
    [cheatsheets |-> <<BashTips, Notes>>,
     has_keyword_taxonomy |-> TRUE,
     keyword_taxonomy |-> Prefixes(ShellPath) \cup Prefixes(<<S.Computers, S.VCS>>)]

StoragePath == "cheatsheets.json"

BrokenPath == "broken.json"

FileMissing == [kind |-> "missing", data |-> DefaultStructure]

FileInvalid == [kind |-> "invalid", data |-> DefaultStructure]

\* what the storage file may hold when the program starts; broken.json
\* holds text that is not JSON
InitialFiles ==
    {[p \in {StoragePath, BrokenPath} |-> IF p = StoragePath THEN f ELSE FileInvalid] :
        f \in {FileMissing,
               [kind |-> "json", data |-> ExampleStore],
               [kind |-> "json", data |-> LegacyStore]}}

NoCall == [op |-> "none"]

\* CategoryManager(): no root categories.  root_categories is the sequence of
\* the keys of the dict in insertion order; categories maps the chain of
\* names that leads to a Category object to that object
CategoryManager == [root_categories |-> <<>>, categories |-> [chain \in {} |-> {}]]

----------------------------------------------------------------------------
(* The state machine. *)

\* a manager has been constructed on the storage file
Init ==
    \E fs \in InitialFiles :
        LET m == construct(StoragePath, fs, DefaultStructure)
        IN  /\ files = m.files
            /\ DEFAULT_STORAGE_STRUCTURE = m.default
            /\ loaded = m.loaded
            /\ self = m.self
            /\ managers = 1
            /\ category_manager = CategoryManager
            /\ ret = NoCall

SearchOps ==
    {"basic_search", "full_text_search", "fuzzy_search", "semantic_search",
     "search_by_keyword_path"}

\* A call that changes nothing (a search, a rejected add, a remove of an
\* unknown name, a migration that finds nothing to migrate) can be followed
\* by exactly the calls that can follow the state it was made in, with the
\* same outcomes: no operation reads ret.  The exploration therefore goes on
\* only from the states a call has changed.
Idle == IF ret.op = "none" THEN TRUE ELSE ret.changed

\* manager.add_cheatsheet(name, content, categories, keyword_path, description)
AddCheatsheet ==
    /\ Idle
    /\ \E a \in AddInputs :
           /\ Len(cheatsheets) < MaxDocs
           /\ LET r == add_cheatsheet(self_cheatsheets, a.name, a.content, a.categories,
                                      a.keyword_path, a.description)
              IN  /\ SetDict(r.dict)
                  /\ IF r.ok THEN save_cheatsheets(r.dict) ELSE UNCHANGED files
                  /\ ret' = [op |-> "add_cheatsheet", name |-> a.name,
                             keyword_path |-> a.keyword_path, returned |-> r.ok,
                             changed |-> r.ok]
           /\ UNCHANGED <<self, managers, category_manager>>

\* manager.remove_cheatsheet(name)
RemoveCheatsheet ==
    /\ Idle
    /\ \E name \in Names :
           /\ LET r == remove_cheatsheet(self_cheatsheets, name)
              IN  /\ SetDict(r.dict)
                  /\ IF r.ok THEN save_cheatsheets(r.dict) ELSE UNCHANGED files
                  /\ ret' = [op |-> "remove_cheatsheet", name |-> name, returned |-> r.ok,
                             changed |-> r.ok]
           /\ UNCHANGED <<self, managers, category_manager>>

\* manager.migrate_categories_to_paths(default_root)
MigrateCategoriesToPaths ==
    /\ Idle
    /\ \E default_root \in Roots :
           /\ LET r == migrate_categories_to_paths(self_cheatsheets, default_root)
              IN  /\ SetDict(r.dict)
                  /\ IF r.migrated > 0 THEN save_cheatsheets(r.dict) ELSE UNCHANGED files
                  /\ ret' = [op |-> "migrate_categories_to_paths",
                             default_root |-> default_root, returned |-> r.migrated,
                             changed |-> r.migrated > 0]
           /\ UNCHANGED <<self, managers, category_manager>>

\* MigrationTool(manager).apply_suggested_hierarchy(taxonomy, root)
ApplySuggestedHierarchy ==
    /\ Idle
    /\ \E taxonomy \in TaxonomyInputs, root \in Roots :
           /\ LET r == apply_suggested_hierarchy(self_cheatsheets, taxonomy, root)
              IN  /\ SetDict(r.dict)
                  /\ IF r.updated > 0 THEN save_cheatsheets(r.dict) ELSE UNCHANGED files
                  /\ ret' = [op |-> "apply_suggested_hierarchy", returned |-> r.updated,
                             changed |-> r.updated > 0]
           /\ UNCHANGED <<self, managers, category_manager>>

\* MigrationTool(manager).batch_migrate(interactive=False, defaults)
BatchMigrate ==
    /\ Idle
    /\ \E defaults \in DefaultsInputs :
           /\ LET r == batch_migrate(self_cheatsheets, defaults)
              IN  /\ SetDict(r.dict)
                  /\ IF r.migrated > 0 THEN save_cheatsheets(r.dict) ELSE UNCHANGED files
                  /\ ret' = [op |-> "batch_migrate", returned |-> r.migrated,
                             changed |-> r.migrated > 0]
           /\ UNCHANGED <<self, managers, category_manager>>

\* the order of a list turned round
reversed(list) == [i \in 1..Len(list) |-> list[Len(list) + 1 - i]]

\* mutant: the call leaves the stored list of documents in another order, as
\* a sort or a reverse in place of the list it was handed would
FrameButForTheOrder ==
    /\ SetDict([self_cheatsheets EXCEPT !.cheatsheets = reversed(@)])
    /\ UNCHANGED <<files, self, managers, category_manager>>

\* a call that only reads: the dicts, the files and the manager stay as
\* they are
Frame ==
    UNCHANGED <<DEFAULT_STORAGE_STRUCTURE, files, loaded, self, managers, category_manager>>

\* engine.basic_search(query, keyword_path)
BasicSearch ==
    /\ Idle
    /\ \E query \in QueryInputs, path \in PathInputs :
           /\ ret' = [op |-> "basic_search", query |-> query, path |-> path,
                      raised |-> FALSE, changed |-> FALSE,
                      result |-> basic_search(cheatsheets, query, path)]
           /\ Frame

\* engine.full_text_search(query, keyword_path)
FullTextSearch ==
    /\ Idle
    /\ \E query \in QueryInputs :
           \E order \in Orders(full_text_matching(cheatsheets, query)) :
               \E path \in PathInputs :
                   /\ ret' = [op |-> "full_text_search", query |-> query, path |-> path,
                              order |-> order, raised |-> FALSE, changed |-> FALSE,
                              result |-> full_text_search(cheatsheets, query, path, order)]
                   /\ Frame

\* engine.fuzzy_search(query, threshold)
FuzzySearch ==
    /\ Idle
    /\ \E query \in FuzzyQueries, threshold \in Thresholds :
           /\ ret' = [op |-> "fuzzy_search", query |-> query, threshold |-> threshold,
                      raised |-> FALSE, changed |-> FALSE,
                      result |-> fuzzy_search(cheatsheets, query, threshold)]
           /\ Frame

\* what cosine_similarity may return to semantic_search: a grade for each
\* candidate, when the call gets as far as computing it
similarity_inputs(docs, query, keyword_path, available) ==
    IF available /\ tokenize(query) # <<>>
    THEN [1..Len(semantic_candidates(docs, keyword_path)) -> 0..MaxScore]
    ELSE {<<>>}

\* engine.semantic_search(query, keyword_path), in a runtime where
\* `import sklearn` succeeds (available) or fails
SemanticSearch ==
    /\ Idle
    /\ \E query \in SemanticQueries, path \in SemanticPaths, available \in BOOLEAN :
           \E similarities \in similarity_inputs(cheatsheets, query, path, available) :
               LET r == semantic_search(cheatsheets, query, path, available, similarities)
               IN  /\ ret' = [op |-> "semantic_search", query |-> query, path |-> path,
                              available |-> available, similarities |-> similarities,
                              raised |-> r.raised, warned |-> r.warned,
                              changed |-> FALSE, result |-> r.result]
                   /\ Frame

\* manager.search_by_keyword_path(path, exact_match)
SearchByKeywordPath ==
    /\ Idle
    /\ \E path \in PathInputs, exact_match \in BOOLEAN :
           /\ ret' = [op |-> "search_by_keyword_path", path |-> path,
                      exact_match |-> exact_match, raised |-> FALSE, changed |-> FALSE,
                      result |-> search_by_keyword_path(cheatsheets, path, exact_match)]
           /\ Frame

\* CheatSheetManager(path): a further manager is built in the same process
\* and takes the place of the live one
Construct ==
    /\ Idle
    /\ managers < MaxManagers
    /\ managers' = managers + 1
    /\ UNCHANGED category_manager
    /\ \E path \in {StoragePath, BrokenPath} :
           LET m == construct(path, files, DEFAULT_STORAGE_STRUCTURE)
           IN  /\ files' = m.files
               /\ DEFAULT_STORAGE_STRUCTURE' = m.default
               /\ loaded' = m.loaded
               /\ self' = m.self
               /\ ret' = [op |-> "construct", storage_path |-> path, load |-> m.load,
                          changed |-> TRUE]

\* the keyword paths of at most MaxPathLen keywords over two keywords
PathsUpTo(n) == UNION {[1..k -> {S.Computers, S.VCS}] : k \in 0..n}

\* manager._is_prefix(prefix, full_path)
IsPrefixCall ==
    /\ Idle
    /\ \E prefix \in PathsUpTo(MaxPathLen), full_path \in PathsUpTo(MaxPathLen) :
           /\ ret' = [op |-> "is_prefix", prefix |-> prefix, full_path |-> full_path,
                      changed |-> FALSE, result |-> is_prefix(prefix, full_path)]
           /\ Frame

\* the paths handed to _ensure_keyword_path_exists: the empty path, a new
\* root, and the paths of at most MaxDepth keywords under Computers
EnsurePaths ==
    {<<>>, <<S.VCS>>} \cup {p \in PathsUpTo(MaxDepth) : Len(p) >= 1 /\ p[1] = S.Computers}

\* manager._ensure_keyword_path_exists(keyword_path): the nodes are created
\* in the dict the manager holds; nothing is saved
EnsureKeywordPathExists ==
    /\ Idle
    /\ \E keyword_path \in EnsurePaths :
           LET tx == ensure_keyword_path_exists(keyword_taxonomy, keyword_path)
           IN  /\ SetDict([self_cheatsheets EXCEPT !.keyword_taxonomy = tx])
               /\ ret' = [op |-> "ensure_keyword_path_exists",
                          keyword_path |-> keyword_path,
                          changed |-> tx # keyword_taxonomy]
               /\ UNCHANGED <<files, self, managers, category_manager>>

\* the paths handed to get_keyword_children and list_keywords
LookupPaths == EnsurePaths \cup {<<S.Computers, S.Shell>>, <<S.Shell>>}

\* manager.get_keyword_children(path)
GetKeywordChildren ==
    /\ Idle
    /\ \E path \in LookupPaths :
           /\ ret' = [op |-> "get_keyword_children", path |-> path,
                      raised |-> FALSE, changed |-> FALSE,
                      result |-> get_keyword_children(keyword_taxonomy, path)]
           /\ Frame

\* manager.list_keywords(path, include_cheatsheet_count)
ListKeywords ==
    /\ Idle
    /\ \E path \in LookupPaths, include_cheatsheet_count \in BOOLEAN :
           /\ ret' = [op |-> "list_keywords", path |-> path,
                      include_cheatsheet_count |-> include_cheatsheet_count,
                      raised |-> FALSE, changed |-> FALSE,
                      result |-> list_keywords(self_cheatsheets, path,
                                               include_cheatsheet_count)]
           /\ Frame

\* the characters of the texts handed to _tokenize: an upper-case and a
\* lower-case letter, a digit, the underscore, the blank and a punctuation mark
TextChars == {"G", "i", "7", "_", " ", "-"}

\* the arguments of _tokenize: None (given = FALSE), and the texts of at most
\* MaxTextLen characters
TextInputs ==
    {[given |-> FALSE, text |-> <<>>]}
    \cup {[given |-> TRUE, text |-> t] :
             t \in UNION {[1..n -> TextChars] : n \in 0..MaxTextLen}}

\* engine._tokenize(text), and _tokenize of the returned tokens joined by
\* blanks; None is falsy as the empty string is, so `if not text` returns []
\* for both
Tokenize ==
    /\ Idle
    /\ \E arg \in TextInputs :
           LET tokens == tokenize(arg.text)
           IN  /\ ret' = [op |-> "tokenize", given |-> arg.given, text |-> arg.text,
                          raised |-> FALSE, changed |-> FALSE, result |-> tokens,
                          rejoined |-> tokenize(join(tokens))]
               /\ Frame

\* the names categories are given
CategoryNames == {S.Computers, S.VCS}

\* the CheatSheet objects filed in categories; the first two have one name
Sheets ==
    {[name |-> S.git_basics, path |-> "git-basics.md", format |-> "md",
      tags |-> <<S.git, S.VCS>>],
     [name |-> S.git_basics, path |-> "git-basics.html", format |-> "html", tags |-> <<>>],
     [name |-> S.bash_tips, path |-> "bash-tips.md", format |-> "md", tags |-> <<S.bash>>]}

\* the number of cheat sheets filed in the categories of cm
RECURSIVE SheetCount(_, _)
SheetCount(cm, chains) ==
    IF chains = {} THEN 0
    ELSE LET chain == CHOOSE c \in chains : TRUE
         IN  Len(cm.categories[chain].cheatsheets) + SheetCount(cm, chains \ {chain})

\* the path strings handed to CategoryManager.add_cheatsheet: the path of
\* every category there is, the empty path, a path with a leading, with a
\* trailing and with a doubled '/', and a path below a category that has no
\* such subcategory
PathStrings ==
    {join_slash(chain) : chain \in DOMAIN category_manager.categories}
    \cup {<<>>, <<"/">> \o S.Computers, S.Computers \o <<"/">>,
          S.Computers \o <<"/", "/">> \o S.VCS, S.Computers \o <<"/">> \o S.Shell}

\* the objects of src/src/category.py take no part in the manager's calls
ManagerFrame == UNCHANGED <<DEFAULT_STORAGE_STRUCTURE, files, loaded, self, managers>>

\* category_manager.add_root_category(name)
AddRootCategory ==
    /\ Idle
    /\ \E name \in CategoryNames :
           /\ \/ name \in Range(category_manager.root_categories)
              \/ Cardinality(DOMAIN category_manager.categories) < MaxCategories
           /\ LET r == add_root_category(category_manager, name)
              IN  /\ category_manager' = r.manager
                  /\ ret' = [op |-> "add_root_category", name |-> name,
                             raised |-> r.raised, changed |-> ~r.raised]
           /\ ManagerFrame

\* category.add_subcategory(name), on any Category object of the tree
AddSubcategory ==
    /\ Idle
    /\ \E chain \in DOMAIN category_manager.categories, name \in CategoryNames :
           /\ \/ name \in Range(category_manager.categories[chain].subcategories)
              \/ Cardinality(DOMAIN category_manager.categories) < MaxCategories
           /\ LET r == add_subcategory(category_manager, chain, name)
              IN  /\ category_manager' = r.manager
                  /\ ret' = [op |-> "add_subcategory", category |-> chain, name |-> name,
                             raised |-> r.raised, changed |-> ~r.raised]
           /\ ManagerFrame

\* category_manager.add_cheatsheet(path, cheatsheet), which hands the cheat
\* sheet to Category.add_cheatsheet of the category the path names
CategoryManagerAddCheatsheet ==
    /\ Idle
    /\ \E path \in PathStrings, cheatsheet \in Sheets :
           LET r == CategoryManager_add_cheatsheet(category_manager, path, cheatsheet)
           IN  /\ \/ r.manager = category_manager
                  \/ SheetCount(category_manager, DOMAIN category_manager.categories)
                         < MaxSheets
               /\ category_manager' = r.manager
               /\ ret' = [op |-> "add_cheatsheet_to_category", path |-> path,
                          cheatsheet |-> cheatsheet, category |-> r.category,
                          raised |-> r.raised, returned |-> r.returned,
                          changed |-> r.manager # category_manager]
               /\ ManagerFrame

\* the queries handed to SearchEngine.search
LegacyQueries == {S.empty, S.q_i, S.q_bas, S.q_GIT}

\* the values of min_score: the default 50.0, and 20
MinScores == {float_of_int(50), float_of_int(20)}

\* the grades fuzz.partial_ratio gives, where fuzzywuzzy is installed
PartialRatios == {20, 50, 100}

\* the cheat sheet of Sheets kept in the file path
Sheet(path) == CHOOSE cheatsheet \in Sheets : cheatsheet.path = path

\* the category trees a SearchEngine is built on: the empty one; Computers
\* with the subcategory VCS, two cheat sheets of one name in the two, then a
\* third one next to the first; VCS and Computers as two root categories
\* with a cheat sheet each
SearchedManagers ==
    LET Computers == add_root_category(CategoryManager, S.Computers).manager
        VCS       == add_subcategory(Computers, <<S.Computers>>, S.VCS).manager
        one       == CategoryManager_add_cheatsheet(
                         VCS, S.Computers, Sheet("git-basics.html")).manager
        two       == CategoryManager_add_cheatsheet(
                         one, S.Computers \o <<"/">> \o S.VCS, Sheet("git-basics.md")).manager
        three     == CategoryManager_add_cheatsheet(
                         two, S.Computers, Sheet("bash-tips.md")).manager
        roots     == add_root_category(
                         add_root_category(CategoryManager, S.VCS).manager,
                         S.Computers).manager
        filed     == CategoryManager_add_cheatsheet(
                         CategoryManager_add_cheatsheet(
                             roots, S.VCS, Sheet("git-basics.md")).manager,
                         S.Computers, Sheet("bash-tips.md")).manager
    IN  {CategoryManager, two, three, filed}

\* the texts a search scores: the names and the tags of the raw matches,
\* lower-cased; none for the empty query, which returns before
ScoredTexts(cm, query) ==
    LET raw_matches == IF query = <<>> THEN <<>> ELSE CategoryManager_search(cm, query, 1)
    IN  UNION {{lower(raw_matches[i].cheatsheet.name)}
               \cup {lower(raw_matches[i].cheatsheet.tags[j]) :
                        j \in 1..Len(raw_matches[i].cheatsheet.tags)} :
               i \in 1..Len(raw_matches)}

\* SearchEngine(category_manager).search(query, min_score), in a process
\* with fuzzywuzzy and in one without
LegacySearch ==
    /\ Idle
    /\ \E query \in LegacyQueries, min_score \in MinScores, HAVE_FUZZYWUZZY \in BOOLEAN :
         \E partial_ratio \in
                IF HAVE_FUZZYWUZZY
                THEN [ScoredTexts(category_manager, query) -> PartialRatios]
                ELSE {<<>>} :
           /\ ret' = [op |-> "legacy_search", query |-> query, min_score |-> min_score,
                      HAVE_FUZZYWUZZY |-> HAVE_FUZZYWUZZY,
                      raw_matches |-> CategoryManager_search(category_manager, query, 1),
                      raised |-> FALSE, changed |-> FALSE,
                      result |-> search(category_manager, query, min_score,
                                        HAVE_FUZZYWUZZY, partial_ratio)]
           /\ Frame

\* the final score of lines 107-109 on two int scores
FinalScore ==
    /\ Idle
    /\ \E name_score \in 0..MaxLegacyScore, tag_score \in 0..MaxLegacyScore :
           /\ ret' = [op |-> "final_score", name_score |-> name_score,
                      max_tag_score |-> tag_score,
                      raised |-> FALSE, changed |-> FALSE,
                      result |-> final_score(float_of_int(name_score),
                                             float_of_int(tag_score))]
           /\ Frame

\* the manager and the search engine
Next ==
    \/ AddCheatsheet
    \/ RemoveCheatsheet
    \/ MigrateCategoriesToPaths
    \/ BasicSearch
    \/ FullTextSearch
    \/ FuzzySearch
    \/ SemanticSearch
    \/ SearchByKeywordPath

Spec == Init /\ [][Next]_vars

\* the manager, the search engine and the migration tool
NextTool ==
    \/ Next
    \/ ApplySuggestedHierarchy
    \/ BatchMigrate

SpecTool == Init /\ [][NextTool]_vars

\* managers built one after the other in one process, on the storage file
\* and on a file that holds no JSON
NextLoad ==
    \/ Construct
    \/ AddCheatsheet
    \/ RemoveCheatsheet

SpecLoad == Init /\ [][NextLoad]_vars

\* _is_prefix applied to every pair of bounded paths
NextPrefix == IsPrefixCall

SpecPrefix == Init /\ [][NextPrefix]_vars

\* the taxonomy: nodes created directly and through add_cheatsheet, and
\* looked up
NextTaxonomy ==
    \/ EnsureKeywordPathExists
    \/ AddCheatsheet
    \/ GetKeywordChildren

SpecTaxonomy == Init /\ [][NextTaxonomy]_vars

\* the manager and the search engine with the lookups in the taxonomy
NextLookup ==
    \/ Next
    \/ GetKeywordChildren
    \/ ListKeywords

SpecLookup == Init /\ [][NextLookup]_vars

\* _tokenize applied to every bounded text
NextTokenize == Tokenize

SpecTokenize == Init /\ [][NextTokenize]_vars

\* the category tree of src/src/category.py
NextCategory ==
    \/ AddRootCategory
    \/ AddSubcategory
    \/ CategoryManagerAddCheatsheet

\* the storage file of the manager plays no part in the category tree: the
\* tree is followed from the start on a missing file, which leaves the
\* manager with the module-level dict
InitCategory == Init /\ self.aliased

SpecCategory == InitCategory /\ [][NextCategory]_vars

\* the search engine of src/src/search.py, built on each of the category
\* trees of SearchedManagers
NextLegacySearch ==
    \/ LegacySearch
    \/ FinalScore

InitLegacySearch ==
    /\ \E fs \in InitialFiles :
           LET m == construct(StoragePath, fs, DefaultStructure)
           IN  /\ files = m.files
               /\ DEFAULT_STORAGE_STRUCTURE = m.default
               /\ loaded = m.loaded
               /\ self = m.self
               /\ self.aliased
    /\ managers = 1
    /\ category_manager \in SearchedManagers
    /\ ret = NoCall

SpecLegacySearch == InitLegacySearch /\ [][NextLegacySearch]_vars

----------------------------------------------------------------------------
(* The claims. *)

\* the stored documents that have a keyword_path
WithPath == {i \in 1..Len(cheatsheets) : cheatsheets[i].has_keyword_path}

\* every prefix of every stored keyword_path is a node chain of the taxonomy
Superset ==
    \A i \in WithPath :
        \A chain \in Prefixes(cheatsheets[i].keyword_path) :
            \A k \in 1..Len(chain) : SubSeq(chain, 1, k) \in keyword_taxonomy

\* C1: under add_cheatsheet, remove_cheatsheet and migrate_categories_to_paths
\* every prefix of every stored document's keyword_path (the full path
\* included) is a chain of nested nodes of keyword_taxonomy.
C1_TaxonomySuperset == Superset

\* a migrated legacy document and a document added with a three-keyword path
\* are stored together
C1_Witness ==
    /\ ret.op = "migrate_categories_to_paths"
    /\ ret.returned > 0
    /\ \E i, j \in WithPath :
          /\ cheatsheets[i].keyword_path = <<ret.default_root, S.git>>
          /\ cheatsheets[j].keyword_path = GitPath

\* C2: after apply_suggested_hierarchy or batch_migrate(interactive=False) has
\* attached keyword paths, every prefix of every document's keyword_path is a
\* node chain of keyword_taxonomy.
C2_ToolKeepsSuperset ==
    ret.op \in {"apply_suggested_hierarchy", "batch_migrate"} => Superset

\* the strings of a document that the index covers
IndexedFields(cs) ==
    {cs.name, cs.description, cs.content}
    \cup Range(cs.categories)
    \cup (IF cs.has_keyword_path THEN Range(cs.keyword_path) ELSE {})

\* document cs holds the token in one of its indexed fields
HoldsToken(cs, token) == \E field \in IndexedFields(cs) : token \in Range(tokenize(field))

\* C3: every document full_text_search returns holds every token of the query
\* in its name, categories, keyword-path segments, description or content;
\* and if some token of the query is in no document, the result is empty.
C3_FullTextSound ==
    (ret.op = "full_text_search" /\ tokenize(ret.query) # <<>>) =>
        /\ \A k \in 1..Len(ret.result) :
              \A token \in Range(tokenize(ret.query)) : HoldsToken(ret.result[k], token)
        /\ (\E token \in Range(tokenize(ret.query)) :
               \A i \in 1..Len(cheatsheets) : ~HoldsToken(cheatsheets[i], token))
           => ret.result = <<>>

\* a two-token query returned one document of several, another document
\* holding only one of the two tokens
C3_Witness ==
    /\ ret.op = "full_text_search"
    /\ ret.query = S.q_git_basics
    /\ Len(ret.result) = 1
    /\ \E i \in 1..Len(cheatsheets) :
          /\ HoldsToken(cheatsheets[i], S.git)
          /\ cheatsheets[i] \notin Range(ret.result)

\* C4: basic_search, full_text_search, fuzzy_search (threshold 0.7) and
\* semantic_search return an empty list for a query that is empty or has no
\* tokens.
C4_EmptyQueryEmptyResult ==
    (/\ ret.op \in {"basic_search", "full_text_search", "fuzzy_search", "semantic_search"}
     /\ ret.op = "fuzzy_search" => ret.threshold = <<7, 10>>
     /\ tokenize(ret.query) = <<>>)
    => (~ret.raised /\ ret.result = <<>>)

\* C5: in a runtime without sklearn, semantic_search on a non-empty candidate
\* set and a query with tokens does not raise: it warns and returns exactly
\* what basic_search returns.
C5_MissingSklearnFallsBack ==
    (/\ ret.op = "semantic_search"
     /\ ~ret.available
     /\ semantic_candidates(cheatsheets, ret.path) # <<>>
     /\ tokenize(ret.query) # <<>>)
    => /\ ~ret.raised
       /\ ret.warned
       /\ ret.result = basic_search(cheatsheets, ret.query, ret.path)

\* C6: a manager built on a missing file or on a file that holds no JSON has
\* an empty document list, and its searches return nothing, whatever was done
\* with earlier managers of the same process.
C6_MalformedDataIsEmpty ==
    (ret.op = "construct" /\ ret.load \in {"missing", "invalid"}) =>
        /\ cheatsheets = <<>>
        /\ \A query \in QueryInputs : basic_search(cheatsheets, query, <<>>) = <<>>

\* the store holds exactly the three documents of the fuzzy example
ExampleDocs == cheatsheets = <<GitBasics, GitAdvanced, BashTips>>

\* C7 as stated: on the example documents fuzzy_search("gti", threshold=0.7)
\* returns git-basics and git-advanced.
C7_FuzzyExampleAsStated ==
    (/\ ret.op = "fuzzy_search"
     /\ ret.query = S.q_gti
     /\ ret.threshold = <<7, 10>>
     /\ ExampleDocs)
    => ret.result = <<GitBasics, GitAdvanced>>

\* C7 amended: on the example documents the score 2*M/T of git-basics and of
\* git-advanced for "gti" is 2/3 (from the segment "Git") and that of
\* bash-tips is 1/3, so fuzzy_search("gti", threshold=0.7) returns nothing and
\* fuzzy_search("gti", threshold=0.6) returns git-basics and git-advanced.
C7_FuzzyExample ==
    (ret.op = "fuzzy_search" /\ ret.query = S.q_gti /\ ExampleDocs) =>
        /\ ret.threshold = <<7, 10>> => ret.result = <<>>
        /\ ret.threshold = <<6, 10>> => ret.result = <<GitBasics, GitAdvanced>>

\* fuzzy_search("gti", threshold=0.6) was called on the example documents
C7_Witness ==
    /\ ret.op = "fuzzy_search"
    /\ ret.query = S.q_gti
    /\ ret.threshold = <<6, 10>>
    /\ ExampleDocs
    /\ Len(ret.result) = 2

\* path is a chain of nested nodes of the taxonomy
NodeChain(path) == \A k \in 1..Len(path) : SubSeq(path, 1, k) \in keyword_taxonomy

\* C8: in every state the manager and the migration tool can reach, a search
\* filtered by a non-empty keyword path that is no node chain of the taxonomy
\* returns an empty list.
C8_UnknownPathIsEmpty ==
    (/\ ret.op \in {"basic_search", "full_text_search", "semantic_search",
                    "search_by_keyword_path"}
     /\ ret.path # <<>>
     /\ ~NodeChain(ret.path))
    => (~ret.raised /\ ret.result = <<>>)

\* positional prefix, stated on the elements
PrefixOf(prefix, full_path) ==
    /\ Len(prefix) <= Len(full_path)
    /\ \A i \in 1..Len(prefix) : prefix[i] = full_path[i]

\* C9: with a non-empty keyword_path filter F, full_text_search returns only
\* documents that have a keyword_path of which F is a positional prefix, and
\* it returns every document that holds all query tokens and has F as prefix.
C9_FullTextPathFilter ==
    (ret.op = "full_text_search" /\ ret.path # <<>>) =>
        /\ \A k \in 1..Len(ret.result) :
              /\ ret.result[k].has_keyword_path
              /\ PrefixOf(ret.path, ret.result[k].keyword_path)
        /\ \A i \in WithPath :
              (/\ tokenize(ret.query) # <<>>
               /\ \A token \in Range(tokenize(ret.query)) : HoldsToken(cheatsheets[i], token)
               /\ PrefixOf(ret.path, cheatsheets[i].keyword_path))
              => cheatsheets[i] \in Range(ret.result)

\* a filtered query returned a document and left out another one that holds
\* the token but is not under the path
C9_Witness ==
    /\ ret.op = "full_text_search"
    /\ ret.query = S.git
    /\ ret.path = <<S.Computers, S.VCS>>
    /\ Len(ret.result) >= 1
    /\ \E i \in 1..Len(cheatsheets) :
          /\ HoldsToken(cheatsheets[i], S.git)
          /\ cheatsheets[i] \notin Range(ret.result)

\* C10: _is_prefix(prefix, full_path) is true iff prefix is no longer than
\* full_path and agrees with it at every position of prefix; so it is true
\* for the empty prefix and for a path against itself, and false for a path
\* with one more element against that path.
C10_IsPrefix ==
    ret.op = "is_prefix" =>
        /\ ret.result <=> PrefixOf(ret.prefix, ret.full_path)
        /\ ret.prefix = <<>> => ret.result
        /\ ret.prefix = ret.full_path => ret.result
        /\ (/\ Len(ret.prefix) = Len(ret.full_path) + 1
            /\ SubSeq(ret.prefix, 1, Len(ret.full_path)) = ret.full_path)
           => ~ret.result

\* a proper two-element prefix of a three-element path was accepted
C10_Witness ==
    /\ ret.op = "is_prefix"
    /\ Len(ret.prefix) = 2
    /\ Len(ret.full_path) = 3
    /\ ret.result

\* the path whose nodes the last call had to create: the argument of
\* _ensure_keyword_path_exists, or the keyword_path of an accepted add
EnsuredPath ==
    IF ret.op = "ensure_keyword_path_exists" THEN ret.keyword_path
    ELSE IF ret.op = "add_cheatsheet" /\ ret.returned THEN ret.keyword_path
    ELSE <<>>

\* C11: after _ensure_keyword_path_exists(P), called directly or by an
\* accepted add_cheatsheet with keyword_path P, P non-empty,
\* get_keyword_children(P[:-1]) contains P[-1], and every child that
\* get_keyword_children listed at any path before the call is still listed
\* at that path.
C11_EnsureRoundTrip ==
    [][EnsuredPath' # <<>> =>
          LET P == EnsuredPath'
          IN  /\ P[Len(P)] \in
                    get_keyword_children(keyword_taxonomy', SubSeq(P, 1, Len(P) - 1))
              /\ \A q \in {<<>>} \cup keyword_taxonomy :
                    get_keyword_children(keyword_taxonomy, q)
                        \subseteq get_keyword_children(keyword_taxonomy', q)]_vars

\* a direct call created a new node under Computers, next to the children
\* Computers already had, after another call had created a second root
C11_Witness ==
    /\ ret.op = "ensure_keyword_path_exists"
    /\ ret.changed
    /\ ret.keyword_path = <<S.Computers, S.Computers>>
    /\ get_keyword_children(keyword_taxonomy, <<>>) = {S.Computers, S.VCS}
    /\ get_keyword_children(keyword_taxonomy, <<S.Computers>>)
           = {S.Computers, S.VCS, S.Shell}

\* C12: _ensure_keyword_path_exists(P) applied to the taxonomy it has just
\* produced gives that taxonomy again, a second call with the same path right
\* after the first changes nothing, and a call on a path that is already a
\* node chain changes nothing.
C12_EnsureIdempotent ==
    [][ret'.op = "ensure_keyword_path_exists" =>
          LET P == ret'.keyword_path
          IN  /\ ensure_keyword_path_exists(keyword_taxonomy', P) = keyword_taxonomy'
              /\ (ret.op = "ensure_keyword_path_exists" /\ ret.keyword_path = P)
                    => keyword_taxonomy' = keyword_taxonomy
              /\ NodeChain(P) => keyword_taxonomy' = keyword_taxonomy]_vars

\* the call was repeated on a two-keyword path a call before it had created
C12_Witness ==
    /\ ret.op = "ensure_keyword_path_exists"
    /\ ~ret.changed
    /\ ret.keyword_path = <<S.Computers, S.Computers>>
    /\ NodeChain(ret.keyword_path)

\* C13: get_keyword_children(path) with a path that is no node chain of the
\* taxonomy returns an empty list, does not raise, and leaves the taxonomy
\* as it was.
C13_ChildrenOfMissingPath ==
    [][(ret'.op = "get_keyword_children" /\ ~NodeChain(ret'.path)) =>
          /\ ret'.result = {}
          /\ ~ret'.raised
          /\ keyword_taxonomy' = keyword_taxonomy]_vars

\* the lookup left the taxonomy at the second keyword of the path, the first
\* being a node that has children
C13_Witness ==
    /\ ret.op = "get_keyword_children"
    /\ ret.path = <<S.Computers, S.Computers>>
    /\ ~NodeChain(ret.path)
    /\ get_keyword_children(keyword_taxonomy, <<S.Computers>>) # {}
    /\ ret.result = {}

\* the similarities fuzzy_search computes for a document: the ratio of the
\* lower-cased query to the lower-cased name, to each category and, when the
\* document has a keyword_path, to each of its segments
Similarities(query, cs) ==
    {ratio(lower(query), lower(field)) :
        field \in {cs.name} \cup Range(cs.categories)
                  \cup (IF cs.has_keyword_path THEN Range(cs.keyword_path) ELSE {})}

\* the largest similarity of document a is at least that of document b
ScoresAtLeast(query, a, b) ==
    \A y \in Similarities(query, b) : \E x \in Similarities(query, a) : RatioGeq(x, y)

\* C14: along the list fuzzy_search(query, threshold) returns, the largest
\* similarity of a document never increases.
C14_FuzzyOrdered ==
    ret.op = "fuzzy_search" =>
        \A k \in 1..(Len(ret.result) - 1) :
            ScoresAtLeast(ret.query, ret.result[k], ret.result[k + 1])

\* two documents were returned in the reverse of their store order, the
\* second one scoring strictly less than the first
C14_Witness ==
    /\ ret.op = "fuzzy_search"
    /\ ret.query = S.git_basics
    /\ cheatsheets = <<BashTips, GitBasics>>
    /\ ret.result = <<GitBasics, BashTips>>
    /\ ~ScoresAtLeast(ret.query, BashTips, GitBasics)

Candidate(path, cs) ==
    path = <<>> \/ (cs.has_keyword_path /\ PrefixOf(path, cs.keyword_path))

\* the lower-cased query is a substring of one of the lower-cased fields
SubstringHit(query, cs) ==
    \E field \in IndexedFields(cs) : Contains(lower(query), lower(field))

\* the places of document cs in the store
Places(cs) == {i \in 1..Len(cheatsheets) : cheatsheets[i] = cs}

\* C16: basic_search(query, path), which hands its arguments to
\* search_cheatsheets, returns exactly the candidates (every document when
\* path is empty, else the documents whose keyword_path has path as prefix)
\* for which the lower-cased query is a substring of the lower-cased name, a
\* category, a keyword-path segment, the description or the content; each
\* once, in store order.
C16_SubstringSearch ==
    ret.op = "basic_search" =>
        /\ \A i \in 1..Len(cheatsheets) :
              cheatsheets[i] \in Range(ret.result)
                  <=> (Candidate(ret.path, cheatsheets[i])
                       /\ SubstringHit(ret.query, cheatsheets[i]))
        /\ \A j, k \in 1..Len(ret.result) :
              j < k => \E m \in Places(ret.result[j]), n \in Places(ret.result[k]) : m < n
        /\ Len(ret.result) <= Len(cheatsheets)

\* an upper-case query under a path: the document under the path is returned
\* through its lower-cased fields, and a legacy document that holds the query
\* too is no candidate
C16_Witness ==
    /\ ret.op = "basic_search"
    /\ ret.query = S.q_GIT
    /\ ret.path = <<S.Computers>>
    /\ cheatsheets = <<Notes, GitAdvanced>>
    /\ ret.result = <<GitAdvanced>>
    /\ SubstringHit(ret.query, Notes)

\* result is a sub-list of list: its entries are entries of list, in the
\* order they have there
SubList(result, list) ==
    /\ \A k \in 1..Len(result) : \E n \in 1..Len(list) : list[n] = result[k]
    /\ \A j, k \in 1..Len(result) :
          j < k => \E m, n \in 1..Len(list) :
                      m < n /\ list[m] = result[j] /\ list[n] = result[k]

\* C17: search_by_keyword_path(path, exact_match) returns, in store order,
\* the documents whose keyword_path equals path when exact_match is true, and
\* the documents that have a keyword_path with path as prefix when it is
\* false; a document without keyword_path is never returned, and the exact
\* result is a sub-list of the prefix result.
C17_SearchByKeywordPath ==
    ret.op = "search_by_keyword_path" =>
        /\ \A i \in 1..Len(cheatsheets) :
              cheatsheets[i] \in Range(ret.result)
                  <=> /\ cheatsheets[i].has_keyword_path
                      /\ IF ret.exact_match
                         THEN cheatsheets[i].keyword_path = ret.path
                         ELSE PrefixOf(ret.path, cheatsheets[i].keyword_path)
        /\ SubList(ret.result, cheatsheets)
        /\ ret.exact_match =>
              SubList(ret.result, search_by_keyword_path(cheatsheets, ret.path, FALSE))

\* the exact search at an inner node returned the one document filed there,
\* and not the document filed below it that the prefix search returns too
C17_Witness ==
    /\ ret.op = "search_by_keyword_path"
    /\ ret.exact_match
    /\ ret.path = <<S.Computers, S.VCS>>
    /\ cheatsheets = <<GitBasics, VcsOverview>>
    /\ ret.result = <<VcsOverview>>
    /\ search_by_keyword_path(cheatsheets, ret.path, FALSE) = cheatsheets

\* the documents migrate_categories_to_paths has to migrate: no
\* keyword_path, at least one category
Legacy == {i \in 1..Len(cheatsheets) :
              ~cheatsheets[i].has_keyword_path /\ cheatsheets[i].categories # <<>>}

C19_NeverPruned ==
    [][/\ ret'.op = "remove_cheatsheet" => keyword_taxonomy' = keyword_taxonomy
       /\ keyword_taxonomy \subseteq keyword_taxonomy'
       /\ ret'.op = "remove_cheatsheet" =>
             \A i \in WithPath :
                 cheatsheets[i].name = ret'.name =>
                     LET P == cheatsheets[i].keyword_path
                     IN  P[Len(P)] \in get_keyword_children(keyword_taxonomy',
                                                           SubSeq(P, 1, Len(P) - 1))]_vars

\* bash-tips was removed, no document is left under Computers/Shell, and
\* Shell is still listed under Computers
C19_Witness ==
    /\ ret.op = "remove_cheatsheet"
    /\ ret.returned
    /\ ret.name = S.bash_tips
    /\ \A i \in WithPath : ~PrefixOf(ShellPath, cheatsheets[i].keyword_path)
    /\ S.Shell \in get_keyword_children(keyword_taxonomy, <<S.Computers>>)

\* the calls that only read
ReadOnlyOps ==
    {"basic_search", "full_text_search", "fuzzy_search", "semantic_search",
     "search_by_keyword_path", "get_keyword_children", "list_keywords"}

\* what the call recorded in ret returns when it is made once more, with the
\* same arguments, on the state as it is now; the order in which the runtime
\* iterates the set of matching positions, whether it has sklearn, and the
\* similarities sklearn computes, are those of the recorded call
CalledAgain ==
    CASE ret.op = "basic_search" ->
             basic_search(cheatsheets, ret.query, ret.path)
      [] ret.op = "full_text_search" ->
             full_text_search(cheatsheets, ret.query, ret.path, ret.order)
      [] ret.op = "fuzzy_search" ->
             fuzzy_search(cheatsheets, ret.query, ret.threshold)
      [] ret.op = "semantic_search" ->
             semantic_search(cheatsheets, ret.query, ret.path, ret.available,
                             ret.similarities).result
      [] ret.op = "search_by_keyword_path" ->
             search_by_keyword_path(cheatsheets, ret.path, ret.exact_match)
      [] ret.op = "get_keyword_children" ->
             get_keyword_children(keyword_taxonomy, ret.path)
      [] ret.op = "list_keywords" ->
             list_keywords(self_cheatsheets, ret.path, ret.include_cheatsheet_count)

UniqueNames ==
    \A i, j \in 1..Len(cheatsheets) :
        cheatsheets[i].name = cheatsheets[j].name => i = j

\* C21: from a store with pairwise distinct names, after any sequence of
\* add_cheatsheet, remove_cheatsheet and migrate_categories_to_paths no two
\* stored documents share a name; and add_cheatsheet with a name that a
\* stored document has returns False.
C21_UniqueNames ==
    /\ [](UniqueNames)
    /\ [][(/\ ret'.op = "add_cheatsheet"
           /\ \E i \in 1..Len(cheatsheets) : cheatsheets[i].name = ret'.name)
          => ~ret'.returned]_vars

\* a well-formed name that a stored document has was handed to
\* add_cheatsheet, and the store holds that name once
C21_Witness ==
    /\ ret.op = "add_cheatsheet"
    /\ ~ret.returned
    /\ name_matches(ret.name)
    /\ Cardinality({i \in 1..Len(cheatsheets) : cheatsheets[i].name = ret.name}) = 1

\* the immediate children of path in the taxonomy
ChildrenOf(path) == {c \in {chain[Len(chain)] : chain \in keyword_taxonomy} :
                        Append(path, c) \in keyword_taxonomy /\ NodeChain(path)}

\* the stored documents whose keyword_path has path as a prefix
DocsUnder(path) == {i \in WithPath : PrefixOf(path, cheatsheets[i].keyword_path)}

\* C22: list_keywords(path, include_cheatsheet_count=True) maps each immediate
\* child c of path in the taxonomy to the number of stored documents whose
\* keyword_path has path + [c] as a prefix, and maps nothing else; a child
\* under which no document is left is listed with count 0.
C22_ListKeywordsCounts ==
    (ret.op = "list_keywords" /\ ret.include_cheatsheet_count) =>
        /\ DOMAIN ret.result = ChildrenOf(ret.path)
        /\ \A c \in ChildrenOf(ret.path) :
              ret.result[c] = Cardinality(DocsUnder(Append(ret.path, c)))

\* bash-tips was removed from the example store: Shell is listed under
\* Computers with count 0, next to VCS with the two documents filed below it
C22_Witness ==
    /\ ret.op = "list_keywords"
    /\ ret.include_cheatsheet_count
    /\ ret.path = <<S.Computers>>
    /\ cheatsheets = <<GitBasics, GitAdvanced>>
    /\ DOMAIN ret.result = {S.VCS, S.Shell}
    /\ ret.result[S.Shell] = 0
    /\ ret.result[S.VCS] = 2

\* the places of the candidates of semantic_search in the store
CandidatePlaces(path) == {i \in 1..Len(cheatsheets) : Candidate(path, cheatsheets[i])}

\* the similarity the recorded call was handed for the candidate stored at
\* place i: the candidates are numbered in store order
SimilarityAt(i) ==
    ret.similarities[Cardinality({j \in CandidatePlaces(ret.path) : j <= i})]

\* the place of a returned document in the store (names are unique)
PlaceOf(cs) == CHOOSE i \in 1..Len(cheatsheets) : cheatsheets[i].name = cs.name

\* C23: given a similarity for each candidate, semantic_search returns exactly
\* the candidates whose similarity is greater than 0, each once, in the order
\* of non-increasing similarity; with a non-empty keyword_path filter every
\* returned document has that filter as a prefix of its keyword_path; and an
\* empty candidate set gives an empty result.
C23_SemanticRanking ==
    ret.op = "semantic_search" =>
        /\ CandidatePlaces(ret.path) = {} => (~ret.raised /\ ret.result = <<>>)
        /\ (ret.available /\ tokenize(ret.query) # <<>>) =>
              /\ ~ret.raised
              /\ Range(ret.result) =
                     {cheatsheets[i] : i \in {j \in CandidatePlaces(ret.path) :
                                                  SimilarityAt(j) > 0}}
              /\ Len(ret.result) =
                     Cardinality({j \in CandidatePlaces(ret.path) : SimilarityAt(j) > 0})
              /\ \A k \in 1..(Len(ret.result) - 1) :
                     SimilarityAt(PlaceOf(ret.result[k]))
                         >= SimilarityAt(PlaceOf(ret.result[k + 1]))
              /\ ret.path # <<>> =>
                     \A k \in 1..Len(ret.result) :
                         /\ ret.result[k].has_keyword_path
                         /\ PrefixOf(ret.path, ret.result[k].keyword_path)

\* three candidates graded 1, 0 and 2: the third is returned before the
\* first, and the second is dropped
C23_Witness ==
    /\ ret.op = "semantic_search"
    /\ ret.available
    /\ ret.query = S.git
    /\ ret.path = <<>>
    /\ ExampleDocs
    /\ ret.similarities = <<1, 0, 2>>
    /\ ret.result = <<BashTips, GitBasics>>

\* C24: without a path filter, full_text_search(query) returns every stored
\* document that holds every token of the query in its indexed fields, and no
\* document more than once, also when the query repeats a token and when a
\* token is in several fields of one document.
C24_FullTextComplete ==
    (ret.op = "full_text_search" /\ ret.path = <<>> /\ tokenize(ret.query) # <<>>) =>
        /\ \A i \in 1..Len(cheatsheets) :
              (\A token \in Range(tokenize(ret.query)) : HoldsToken(cheatsheets[i], token))
              => cheatsheets[i] \in Range(ret.result)
        /\ \A j, k \in 1..Len(ret.result) : ret.result[j] = ret.result[k] => j = k

\* the query names one token twice; git-basics holds it in its name, its
\* category, its keyword path and its content, and is returned once, with
\* git-advanced
C24_Witness ==
    /\ ret.op = "full_text_search"
    /\ ret.query = S.q_git_git
    /\ ret.path = <<>>
    /\ ExampleDocs
    /\ Len(ret.result) = 2
    /\ Range(ret.result) = {GitBasics, GitAdvanced}
    /\ Cardinality({field \in {GitBasics.name, GitBasics.content} \cup Range(GitBasics.categories) :
                       S.git \in Range(tokenize(field))}) >= 3

\* the place of a document in the list the recorded call returned, 0 if it
\* is not in it
ResultPlace(cs) ==
    IF cs \in Range(ret.result)
    THEN CHOOSE k \in 1..Len(ret.result) : ret.result[k] = cs
    ELSE 0

\* C25: two stored documents whose largest similarities to the query are
\* equal, and which both are in the result of fuzzy_search, are in the result
\* in the order they have in the store, although the sort is descending.
C25_FuzzyTiesStable ==
    ret.op = "fuzzy_search" =>
        \A i, j \in 1..Len(cheatsheets) :
            (/\ i < j
             /\ ResultPlace(cheatsheets[i]) # 0
             /\ ResultPlace(cheatsheets[j]) # 0
             /\ ScoresAtLeast(ret.query, cheatsheets[i], cheatsheets[j])
             /\ ScoresAtLeast(ret.query, cheatsheets[j], cheatsheets[i]))
            => ResultPlace(cheatsheets[i]) < ResultPlace(cheatsheets[j])

\* git-basics and git-advanced both score 2/3 for "gti" and pass the
\* threshold 0.5; git-basics, stored first, is returned first
C25_Witness ==
    /\ ret.op = "fuzzy_search"
    /\ ret.query = S.q_gti
    /\ ret.threshold = <<1, 2>>
    /\ ExampleDocs
    /\ max_similarity(lower(ret.query), GitBasics) = <<4, 6>>
    /\ max_similarity(lower(ret.query), GitAdvanced) = <<4, 6>>
    /\ ResultPlace(GitBasics) = 1
    /\ ResultPlace(GitAdvanced) = 2

\* C26: every token _tokenize returns is non-empty, is left as it is by
\* lower(), and holds only letters, digits and underscores, none of them an
\* upper-case letter; a text that is empty or None gives no tokens; and
\* _tokenize of the tokens joined by blanks gives the same tokens.
C26_TokenizeShape ==
    ret.op = "tokenize" =>
        /\ \A k \in 1..Len(ret.result) :
              /\ ret.result[k] # <<>>
              /\ lower(ret.result[k]) = ret.result[k]
              /\ \A i \in 1..Len(ret.result[k]) :
                    ret.result[k][i] \in LowerLetters \cup Digits \cup {"_"}
        /\ (~ret.given \/ ret.text = <<>>) => ret.result = <<>>
        /\ ret.rejoined = ret.result

\* an upper-case letter and an underscore with a punctuation mark between
\* them: two tokens, the first lower-cased
C26_Witness ==
    /\ ret.op = "tokenize"
    /\ ret.text = <<"G", "-", "_">>
    /\ ret.result = << <<"g">>, <<"_">> >>
    /\ join(ret.result) = <<"g", " ", "_">>

\* C27: add_cheatsheet called with a name that fails the check
\* [A-Za-z0-9_-]+, or that a stored document has, returns False and leaves
\* the list of documents and the keyword taxonomy exactly as they were, also
\* when the keyword_path handed in is not yet in the taxonomy.
C27_RejectedAddChangesNothing ==
    [][(/\ ret'.op = "add_cheatsheet"
        /\ \/ ~name_matches(ret'.name)
           \/ \E i \in 1..Len(cheatsheets) : cheatsheets[i].name = ret'.name)
       => /\ ~ret'.returned
          /\ cheatsheets' = cheatsheets
          /\ keyword_taxonomy' = keyword_taxonomy]_vars

\* the name of a stored document was handed in with a keyword_path the
\* taxonomy does not hold, and the taxonomy still does not hold it
C27_Witness ==
    /\ ret.op = "add_cheatsheet"
    /\ ~ret.returned
    /\ name_matches(ret.name)
    /\ \E i \in 1..Len(cheatsheets) : cheatsheets[i].name = ret.name
    /\ ret.keyword_path # <<>>
    /\ ~NodeChain(ret.keyword_path)

\* C28: right after a call migrate_categories_to_paths(root), a second call
\* with any root returns 0 and leaves every document and the taxonomy as
\* they are.
C28_MigrateIdempotent ==
    /\ [][(ret.op = "migrate_categories_to_paths"
             /\ ret'.op = "migrate_categories_to_paths")
          => /\ ret'.returned = 0
             /\ cheatsheets' = cheatsheets
             /\ keyword_taxonomy' = keyword_taxonomy]_vars
    /\ [](ret.op = "migrate_categories_to_paths" =>
             \A root \in Roots :
                 migrate_categories_to_paths(self_cheatsheets, root)
                     = [migrated |-> 0, dict |-> self_cheatsheets])

\* the second call, with another root, on a store in which the first call
\* had filed the legacy document notes under Computers
C28_Witness ==
    /\ ret.op = "migrate_categories_to_paths"
    /\ ret.default_root = S.Uncategorized
    /\ ret.returned = 0
    /\ \E i \in WithPath :
          /\ cheatsheets[i].name = S.notes
          /\ cheatsheets[i].keyword_path = <<S.Computers, S.git>>
    /\ <<S.Uncategorized>> \notin keyword_taxonomy

\* the Category objects of the tree
Categories == category_manager.categories

\* cheat-sheet names are unique within each category
UniqueInCategory ==
    \A chain \in DOMAIN Categories :
        \A j, k \in 1..Len(Categories[chain].cheatsheets) :
            Categories[chain].cheatsheets[j].name = Categories[chain].cheatsheets[k].name
                => j = k

\* the parent of every subcategory is the category that holds it; a root
\* category has none; and the keys of a category's subcategories are the
\* objects held below it
ParentsHold ==
    /\ \A chain \in DOMAIN Categories :
          /\ Categories[chain].parent = SubSeq(chain, 1, Len(chain) - 1)
          /\ Categories[chain].name = chain[Len(chain)]
          /\ Range(Categories[chain].subcategories)
                = {c[Len(c)] : c \in {d \in DOMAIN Categories :
                                         /\ Len(d) = Len(chain) + 1
                                         /\ SubSeq(d, 1, Len(chain)) = chain}}
    /\ Range(category_manager.root_categories)
          = {c[1] : c \in {d \in DOMAIN Categories : Len(d) = 1}}

\* C29: Category.add_subcategory(name) and
\* CategoryManager.add_root_category(name) raise ValueError when a sibling of
\* that name exists, and Category.add_cheatsheet raises ValueError when the
\* category holds a cheat sheet of that name; the tree is then as it was; and
\* after any sequence of these calls cheat-sheet names are unique within each
\* category and the parent of every subcategory is the category that holds it.
C29_CategoryDuplicates ==
    /\ [][/\ (/\ ret'.op = "add_subcategory"
              /\ ret'.name \in Range(Categories[ret'.category].subcategories))
             => (ret'.raised /\ category_manager' = category_manager)
          /\ (/\ ret'.op = "add_root_category"
              /\ ret'.name \in Range(category_manager.root_categories))
             => (ret'.raised /\ category_manager' = category_manager)
          /\ (/\ ret'.op = "add_cheatsheet_to_category"
              /\ ret'.category # None
              /\ \E k \in 1..Len(Categories[ret'.category].cheatsheets) :
                     Categories[ret'.category].cheatsheets[k].name = ret'.cheatsheet.name)
             => (ret'.raised /\ category_manager' = category_manager)]_vars
    /\ [](UniqueInCategory /\ ParentsHold)

\* a second cheat sheet named git-basics, another object than the one
\* filed, was handed to a subcategory that holds git-basics, and was refused
C29_Witness ==
    /\ ret.op = "add_cheatsheet_to_category"
    /\ ret.raised
    /\ Len(ret.category) = 2
    /\ Categories[ret.category].parent = <<ret.category[1]>>
    /\ Len(Categories[ret.category].cheatsheets) = 1
    /\ Categories[ret.category].cheatsheets[1].name = ret.cheatsheet.name
    /\ Categories[ret.category].cheatsheets[1] # ret.cheatsheet

====
